---- MODULE Spec2Model ----
\* Lifecycle of the micro VM (LightMachine): the machine state cell, the vCPU
\* list and the vCPU threads, driven by concurrent callers of pause(), resume(),
\* destroy(), notify_lifecycle() and vm_start(), and by the QMP commands stop
\* and cont.
EXTENDS Integers, Sequences, FiniteSets, TLC

\* ---------------------------------------------------------------- bounds
\* Number of vCPUs of the machine (machine_config.nr_cpus).
NCpus == 2
\* Number of threads that call into the machine concurrently.
NCallers == 2
\* Total number of calls the concurrent callers issue.
MaxCalls == 3
\* Number of pause()/resume() pairs the single caller issues after the start.
MaxPairs == 2
\* Number of vCPU operations the host may fail (Result::Err) where the
\* environment injects failures.
MaxFaults == 1

\* Lines a client sends on the control channel.
MaxLines == 2

\* Largest request id.
MaxId == 0

\* Lines of a session of getfd and netdev_add requests.
MaxFdLines == 3

\* Calls of bind_writer, unbind and send_event.
MaxChanOps == 5

\* std::process::exit(1)
ExitStatus == 1

\* ---------------------------------------------------------------- state
VARIABLES
    vm_state,        \* LightMachine.vm_state: the value in the Mutex<KvmVmState>
    state_owner,     \* holder of the vm_state mutex (0: free)
    state_poisoned,  \* the vm_state mutex was held by a thread that panicked
    cpus_owner,      \* holder of the cpus mutex (0: free)
    cpus_poisoned,   \* the cpus mutex was held by a thread that panicked
    cpus_len,        \* length of the Vec behind LightMachine.cpus
    cpu_state,       \* per vCPU: its lifecycle state
    cpu_thread,      \* per vCPU: where its thread is
    barrier_arrived, \* number of parties that arrived at cpus_thread_barrier
    start_written,   \* vm_start has written Running/Paused to the state cell
    power_button,    \* number of writes of 1 to the power-button EventFd
    events,          \* QMP events emitted, in order
    pc,              \* per caller: its position in the code
    cur,             \* per caller: the call in progress
    idx,             \* per caller: cpu_index of the loop it is in
    log,             \* per caller: its completed calls, in order
    ncalls,          \* number of calls issued so far
    faults_left,     \* number of vCPU operations the host may still fail
    start_issued,    \* the VM start has been requested
    qmp_pc,          \* position of the thread serving the control channel
    qmp_line,        \* the line it is handling, with the response being built
    qmp_out,         \* the responses written to the socket, in order
    exit_status,     \* the status the process exited with (<<>>: running)
    fds,             \* QmpChannel.fds: the named-fd table (name -> Option<RawFd>)
    net_configs,     \* the network configs registered on the bus, by id
    fd_log,          \* the getfd and netdev_add requests served, in order
    event_writer,    \* QmpChannel.event_writer: the bound writer (<<>>: none)
    writer_poisoned, \* a thread panicked holding the write lock of event_writer
    wire,            \* the event lines written, each with the writer it went to
    em_pc,           \* the emitting thread's position in send_event
    em_event,        \* the event it is sending
    sess_pc,         \* the thread that binds and unbinds the writer
    chan_log,        \* the operations on the channel, in order
    boot,            \* the boot layout being built
    codec,           \* the message being serialised and parsed back
    bus,             \* the replaceable devices attached to the bus, and its calls
    rz               \* LightMachine::realize: its position and what it has done

vars == <<vm_state, state_owner, state_poisoned, cpus_owner, cpus_poisoned,
          cpus_len, cpu_state, cpu_thread, barrier_arrived, start_written,
          power_button, events, pc, cur, idx, log, ncalls, faults_left, start_issued,
          qmp_pc, qmp_line, qmp_out, exit_status,
          fds, net_configs, fd_log,
          event_writer, writer_poisoned, wire, em_pc, em_event, sess_pc, chan_log,
          boot, codec, bus, rz>>

qmp_vars == <<qmp_pc, qmp_line, qmp_out, exit_status>>

fd_vars == <<fds, net_configs, fd_log>>

chan_vars == <<event_writer, writer_poisoned, wire, em_pc, em_event, sess_pc, chan_log>>

dev_vars == <<bus, rz>>

\* What the lifecycle operations and the dispatcher leave alone.
ext_vars == <<fd_vars, chan_vars, boot, codec, dev_vars>>

Callers == 1..NCallers
CPUs == 0..(NCpus - 1)

KvmVmState == {"Created", "Running", "Paused", "Shutdown"}

CpuLifecycleState == {"Created", "Running", "Paused", "Destroyed"}

\* cpu_topo.max_cpus, set from machine_config.nr_cpus at construction.
max_cpus == NCpus

BarrierPartiesShort == max_cpus

\* Barrier::new((self.cpu_topo.max_cpus + 1) as usize)
BarrierParties == max_cpus + 1

\* A handler that returns no value.
NoValue == [kind |-> "none"]

\* Option<u32> and Option<RawFd>: None is <<>>, Some(k) is <<k>>.
None == <<>>

\* A call that is passed no argument of a command.
NoArgs == [fields |-> <<>>, from |-> "none", if_fd |-> None]

NoCall == [op |-> "none", old |-> "none", new |-> "none", paused |-> FALSE,
           qmp |-> FALSE, n |-> 0, quiet |-> FALSE, pre |-> "none",
           act |-> "none", cpu_ops |-> 0, ret |-> FALSE, result |-> NoValue,
           args |-> NoArgs]

\* Response::create_empty_response(): {"return": {}} without id.
Empty == [kind |-> "empty"]

create_empty_response == [return_ |-> Empty, error |-> "none", id |-> None]

\* Response::create_response(v, id).
create_response(v, id) == [return_ |-> v, error |-> "none", id |-> id]

\* Response::create_error_response(err_class, id).
create_error_response(err_class, id) == [return_ |-> NoValue, error |-> err_class, id |-> id]

\* Response::change_id.
change_id(resp, id) == [resp EXCEPT !.id = id]

\* No line is being handled.
NoLine == [n |-> 0, kind |-> "none", name |-> "none", id |-> None,
           arguments |-> "none", if_fd |-> None, todo |-> <<>>, k |-> 0,
           mark |-> 0, state0 |-> "none", resp |-> create_empty_response,
           resp_id |-> None, shutdown_flag |-> FALSE]

\* realize() has not been called.
NoRealize == [phase |-> "idle", arch |-> "none", initrd |-> <<>>,
              bootloader_config |-> <<>>,
              boot_source_locked |-> FALSE, devices |-> FALSE, kernel |-> FALSE,
              initrd_addr |-> FALSE, cpu_index |-> 0, realized |-> <<>>,
              fdt |-> FALSE, fdt_written |-> FALSE, power_event |-> FALSE,
              failed_at |-> <<>>, ret |-> "none"]

\* A bus with no replaceable device attached; no call was made.
NoBus == [devices |-> {}, events |-> <<>>, log |-> <<>>]

\* The state after LightMachine::new(): state cell Created, one CPU object per
\* configured vCPU in the list, no vCPU thread spawned.
InitMachine ==
    /\ vm_state = "Created"
    /\ state_owner = 0
    /\ state_poisoned = FALSE
    /\ cpus_owner = 0
    /\ cpus_poisoned = FALSE
    /\ cpus_len = NCpus
    /\ cpu_state = [c \in CPUs |-> "Created"]
    /\ cpu_thread = [c \in CPUs |-> "none"]
    /\ barrier_arrived = 0
    /\ start_written = FALSE
    /\ power_button = 0
    /\ events = <<>>
    /\ pc = [t \in Callers |-> "idle"]
    /\ cur = [t \in Callers |-> NoCall]
    /\ idx = [t \in Callers |-> 0]
    /\ log = [t \in Callers |-> <<>>]
    /\ ncalls = 0
    /\ start_issued = FALSE
    /\ qmp_pc = "wait"
    /\ qmp_line = NoLine
    /\ qmp_out = <<>>
    /\ exit_status = None
    /\ rz = NoRealize

\* QmpChannel::object_init and the bus of a new machine: no fd is stored, no
\* network config is registered.
InitChannel ==
    /\ fds = [n \in {"a", "b", "7"} |-> None]
    /\ net_configs = [i \in {"net0"} |-> None]
    /\ fd_log = <<>>
    /\ event_writer = None
    /\ writer_poisoned = FALSE
    /\ wire = <<>>
    /\ em_pc = "idle"
    /\ em_event = "none"
    /\ sess_pc = "run"
    /\ chan_log = <<>>
    /\ bus = NoBus

\* No boot layout is being built.
NoBoot == [phase |-> "none"]

\* No message is being serialised.
NoCodec == [phase |-> "none"]

\* A host on which every vCPU operation succeeds.
Init == InitMachine /\ InitChannel /\ boot = NoBoot /\ codec = NoCodec /\ faults_left = 0

\* A host that fails up to MaxFaults vCPU operations.
InitFaulty ==
    InitMachine /\ InitChannel /\ boot = NoBoot /\ codec = NoCodec /\ faults_left = MaxFaults

\* ---------------------------------------------------------------- helpers
OthersIdle(t) == \A u \in Callers \ {t} : pc[u] \in {"idle", "panicked"}

\* A thread that panics unwinds: the guards it holds are dropped and their
\* mutexes are poisoned; the thread is gone.
Panic(t, holdsState, holdsCpus) ==
    /\ pc' = [pc EXCEPT ![t] = "panicked"]
    /\ state_owner' = IF holdsState THEN 0 ELSE state_owner
    /\ state_poisoned' = (state_poisoned \/ holdsState)
    /\ cpus_owner' = IF holdsCpus THEN 0 ELSE cpus_owner
    /\ cpus_poisoned' = (cpus_poisoned \/ holdsCpus)

\* vCPU operations (cpu module): the per-vCPU state machine.
cpu_pause(s) == IF s = "Running" THEN "Paused" ELSE s

cpu_resume(s) == IF s = "Paused" THEN "Running" ELSE s

cpu_destroy(s) == "Destroyed"

\* The vCPU operation named f, applied to a vCPU in state s.
cpu_op(f, s) ==
    CASE f = "pause" -> cpu_pause(s)
      [] f = "resume" -> cpu_resume(s)
      [] f = "destroy" -> cpu_destroy(s)

\* Whether the host lets the next vCPU operation succeed.
Outcomes == IF faults_left > 0 THEN {TRUE, FALSE} ELSE {TRUE}

\* ---------------------------------------------------------------- calls
\* A caller enters one of the public operations.
Begin(t, c) ==
    /\ pc[t] = "idle"
    /\ ncalls' = ncalls + 1
    /\ cur' = [cur EXCEPT ![t] = [c EXCEPT !.n = ncalls + 1,
                                           !.quiet = OthersIdle(t),
                                           !.pre = vm_state]]
    /\ idx' = [idx EXCEPT ![t] = 0]

\* The main thread, which starts the VM and serves the QMP socket: its pause()
\* and resume() calls are the QMP commands stop and cont.
MainThread == 1

\* MachineLifecycle::pause: notify_lifecycle(Running, Paused).
pause(t) ==
    /\ Begin(t, [NoCall EXCEPT !.op = "pause", !.old = "Running",
                               !.new = "Paused", !.qmp = (t = MainThread)])
    /\ pc' = [pc EXCEPT ![t] = "nl_check"]
    /\ UNCHANGED <<vm_state, state_owner, state_poisoned, cpus_owner,
                   cpus_poisoned, cpus_len, cpu_state, cpu_thread,
                   barrier_arrived, start_written, power_button, events, log,
                   faults_left, start_issued>>
    /\ UNCHANGED qmp_vars
    /\ UNCHANGED ext_vars

\* MachineLifecycle::resume: notify_lifecycle(Paused, Running).
resume(t) ==
    /\ Begin(t, [NoCall EXCEPT !.op = "resume", !.old = "Paused",
                               !.new = "Running", !.qmp = (t = MainThread)])
    /\ pc' = [pc EXCEPT ![t] = "nl_check"]
    /\ UNCHANGED <<vm_state, state_owner, state_poisoned, cpus_owner,
                   cpus_poisoned, cpus_len, cpu_state, cpu_thread,
                   barrier_arrived, start_written, power_button, events, log,
                   faults_left, start_issued>>
    /\ UNCHANGED qmp_vars
    /\ UNCHANGED ext_vars

\* MachineLifecycle::destroy, entry: the state cell is read under its mutex in
\* the next step.
destroy(t) ==
    /\ Begin(t, [NoCall EXCEPT !.op = "destroy", !.new = "Shutdown"])
    /\ pc' = [pc EXCEPT ![t] = "destroy_read"]
    /\ UNCHANGED <<vm_state, state_owner, state_poisoned, cpus_owner,
                   cpus_poisoned, cpus_len, cpu_state, cpu_thread,
                   barrier_arrived, start_written, power_button, events, log,
                   faults_left, start_issued>>
    /\ UNCHANGED qmp_vars
    /\ UNCHANGED ext_vars

\* MachineLifecycle::destroy: let vmstate = { *self.vm_state.lock().unwrap() }.
destroy_read(t) ==
    /\ pc[t] = "destroy_read"
    /\ state_owner = 0
    /\ IF state_poisoned
       THEN /\ Panic(t, FALSE, FALSE)
            /\ UNCHANGED cur
       ELSE /\ cur' = [cur EXCEPT ![t].old = vm_state]
            /\ pc' = [pc EXCEPT ![t] = "nl_check"]
            /\ UNCHANGED <<state_owner, state_poisoned, cpus_owner, cpus_poisoned>>
    /\ UNCHANGED <<vm_state, cpus_len, cpu_state, cpu_thread, barrier_arrived,
                   start_written, power_button, events, idx, log, ncalls,
                   faults_left, start_issued>>
    /\ UNCHANGED qmp_vars
    /\ UNCHANGED ext_vars

\* MachineLifecycle::notify_lifecycle called directly with any pair of states
\* (the VM is started once).
notify_lifecycle(t, old, new) ==
    /\ (old = "Created" /\ new = "Running") => ~start_issued
    /\ start_issued' = (start_issued \/ (old = "Created" /\ new = "Running"))
    /\ Begin(t, [NoCall EXCEPT !.op = "notify_lifecycle", !.old = old, !.new = new])
    /\ pc' = [pc EXCEPT ![t] = "nl_check"]
    /\ UNCHANGED <<vm_state, state_owner, state_poisoned, cpus_owner,
                   cpus_poisoned, cpus_len, cpu_state, cpu_thread,
                   barrier_arrived, start_written, power_button, events, log,
                   faults_left>>
    /\ UNCHANGED qmp_vars
    /\ UNCHANGED ext_vars

\* ------------------------------------------------------- notify_lifecycle
\* The match of notify_lifecycle on (old, new): the transition action it runs.
lifecycle_action(old, new) ==
    IF old = "Created" /\ new = "Running" THEN "vm_start"
    ELSE IF old = "Running" /\ new = "Paused" THEN "vm_pause"
    ELSE IF old = "Paused" /\ new = "Running" THEN "vm_resume"
    ELSE IF new = "Shutdown" THEN "vm_destroy"
    ELSE "illegal"

\* First position of a loop `for cpu_index in 0..max_cpus`, or the position
\* after it when the range is empty or exhausted.
LoopPc(i, body, after) == IF i < max_cpus THEN body ELSE after

ActionEntry(a) ==
    CASE a = "vm_start" -> LoopPc(0, "vs_clone", "vs_write")
      [] a = "vm_pause" -> LoopPc(0, "vp_cpu", "vp_write")
      [] a = "vm_resume" -> LoopPc(0, "vr_cpu", "vr_write")
      [] a = "vm_destroy" -> "vd_lock"

nl_check_held(t) ==
    /\ pc[t] = "nl_check"
    /\ state_owner = 0
    /\ IF state_poisoned
       THEN /\ Panic(t, FALSE, FALSE)
            /\ UNCHANGED cur
       ELSE /\ UNCHANGED <<state_poisoned, cpus_owner, cpus_poisoned>>
            /\ IF vm_state # cur[t].old
               THEN /\ cur' = [cur EXCEPT ![t].ret = FALSE]
                    /\ pc' = [pc EXCEPT ![t] = "return"]
                    /\ UNCHANGED state_owner
               ELSE LET a == lifecycle_action(cur[t].old, cur[t].new) IN
                    IF a = "illegal"
                    THEN /\ cur' = [cur EXCEPT ![t].ret = FALSE]
                         /\ pc' = [pc EXCEPT ![t] = "return"]
                         /\ UNCHANGED state_owner
                    ELSE /\ cur' = [cur EXCEPT ![t].act = a]
                         /\ pc' = [pc EXCEPT ![t] = ActionEntry(a)]
                         /\ state_owner' = t
    /\ UNCHANGED <<vm_state, cpus_len, cpu_state, cpu_thread, barrier_arrived,
                   start_written, power_button, events, idx, log, ncalls,
                   faults_left, start_issued>>
    /\ UNCHANGED qmp_vars
    /\ UNCHANGED ext_vars

\* notify_lifecycle, first check: lock the state cell, compare it with `old`,
\* drop the lock, then match on (old, new).
nl_check(t) ==
    /\ pc[t] = "nl_check"
    /\ state_owner = 0
    /\ IF state_poisoned
       THEN /\ Panic(t, FALSE, FALSE)
            /\ UNCHANGED cur
       ELSE /\ UNCHANGED <<state_owner, state_poisoned, cpus_owner, cpus_poisoned>>
            /\ IF vm_state # cur[t].old
               THEN /\ cur' = [cur EXCEPT ![t].ret = FALSE]
                    /\ pc' = [pc EXCEPT ![t] = "return"]
               ELSE LET a == lifecycle_action(cur[t].old, cur[t].new) IN
                    IF a = "illegal"
                    THEN /\ cur' = [cur EXCEPT ![t].ret = FALSE]
                         /\ pc' = [pc EXCEPT ![t] = "return"]
                    ELSE /\ cur' = [cur EXCEPT ![t].act = a]
                         /\ pc' = [pc EXCEPT ![t] = ActionEntry(a)]
    /\ UNCHANGED <<vm_state, cpus_len, cpu_state, cpu_thread, barrier_arrived,
                   start_written, power_button, events, idx, log, ncalls,
                   faults_left, start_issued>>
    /\ UNCHANGED qmp_vars
    /\ UNCHANGED ext_vars

\* Where a transition action goes when it returns.
AfterAction(t) ==
    IF cur[t].op = "vm_start" THEN "return"
    ELSE IF cur[t].act = "vm_destroy" THEN "nl_power"
    ELSE "nl_recheck"

\* One iteration of a loop `self.cpus.lock().unwrap()[cpu_index].f()?`: the
\* list is locked for the statement, indexed (a panic when cpu_index is past
\* its end) and f is run on the vCPU; an Err leaves the transition action.
cpu_loop_step(t, here, f, after) ==
    /\ pc[t] = here
    /\ cpus_owner = 0
    /\ IF cpus_poisoned
       THEN /\ Panic(t, FALSE, FALSE)
            /\ UNCHANGED <<cpu_state, idx, cur, faults_left>>
       ELSE IF idx[t] >= cpus_len
       THEN /\ Panic(t, FALSE, TRUE)
            /\ UNCHANGED <<cpu_state, idx, cur, faults_left>>
       ELSE /\ UNCHANGED <<state_owner, state_poisoned, cpus_owner, cpus_poisoned>>
            /\ \E ok \in Outcomes :
                 IF ok
                 THEN /\ cpu_state' = [cpu_state EXCEPT ![idx[t]] = cpu_op(f, @)]
                      /\ idx' = [idx EXCEPT ![t] = @ + 1]
                      /\ cur' = [cur EXCEPT ![t].cpu_ops = @ + 1]
                      /\ pc' = [pc EXCEPT ![t] = LoopPc(idx[t] + 1, here, after)]
                      /\ UNCHANGED faults_left
                 ELSE /\ faults_left' = faults_left - 1
                      /\ pc' = [pc EXCEPT ![t] = AfterAction(t)]
                      /\ UNCHANGED <<cpu_state, idx, cur>>
    /\ UNCHANGED <<vm_state, cpus_len, cpu_thread, barrier_arrived,
                   start_written, power_button, events, log, ncalls,
                   start_issued>>
    /\ UNCHANGED qmp_vars
    /\ UNCHANGED ext_vars

\* The write `*self.vm_state.lock().unwrap() = s` that ends vm_pause and
\* vm_resume; the guard is dropped when the function returns.
state_write_step(t, here, s) ==
    /\ pc[t] = here
    /\ state_owner = 0
    /\ IF state_poisoned
       THEN /\ Panic(t, FALSE, FALSE)
            /\ UNCHANGED vm_state
       ELSE /\ vm_state' = s
            /\ pc' = [pc EXCEPT ![t] = AfterAction(t)]
            /\ UNCHANGED <<state_owner, state_poisoned, cpus_owner, cpus_poisoned>>
    /\ UNCHANGED <<cpus_len, cpu_state, cpu_thread, barrier_arrived,
                   start_written, power_button, events, cur, idx, log, ncalls,
                   faults_left, start_issued>>
    /\ UNCHANGED qmp_vars
    /\ UNCHANGED ext_vars

\* vm_pause: pause every vCPU, then write Paused.
vm_pause_cpu(t) == cpu_loop_step(t, "vp_cpu", "pause", "vp_write")

vm_pause_write_kept(t) == state_write_step(t, "vp_write", vm_state)

vm_pause_write(t) == state_write_step(t, "vp_write", "Paused")

\* vm_resume: resume every vCPU, then write Running.
vm_resume_cpu(t) == cpu_loop_step(t, "vr_cpu", "resume", "vr_write")

vm_resume_write_kept(t) == state_write_step(t, "vr_write", vm_state)

vm_resume_write(t) == state_write_step(t, "vr_write", "Running")

\* vm_destroy: lock the state cell and write Shutdown; the guard lives to the
\* end of the function.
vm_destroy_lock(t) ==
    /\ pc[t] = "vd_lock"
    /\ state_owner = 0
    /\ IF state_poisoned
       THEN /\ Panic(t, FALSE, FALSE)
            /\ UNCHANGED vm_state
       ELSE /\ state_owner' = t
            /\ vm_state' = "Shutdown"
            /\ pc' = [pc EXCEPT ![t] = "vd_cpus"]
            /\ UNCHANGED <<state_poisoned, cpus_owner, cpus_poisoned>>
    /\ UNCHANGED <<cpus_len, cpu_state, cpu_thread, barrier_arrived,
                   start_written, power_button, events, cur, idx, log, ncalls,
                   faults_left, start_issued>>
    /\ UNCHANGED qmp_vars
    /\ UNCHANGED ext_vars

\* vm_destroy: let mut cpus = self.cpus.lock().unwrap(), with the state guard held.
vm_destroy_cpus(t) ==
    /\ pc[t] = "vd_cpus"
    /\ cpus_owner = 0
    /\ IF cpus_poisoned
       THEN Panic(t, TRUE, FALSE)
       ELSE /\ cpus_owner' = t
            /\ pc' = [pc EXCEPT ![t] = LoopPc(0, "vd_cpu", "vd_clear")]
            /\ UNCHANGED <<state_owner, state_poisoned, cpus_poisoned>>
    /\ UNCHANGED <<vm_state, cpus_len, cpu_state, cpu_thread, barrier_arrived,
                   start_written, power_button, events, cur, idx, log, ncalls,
                   faults_left, start_issued>>
    /\ UNCHANGED qmp_vars
    /\ UNCHANGED ext_vars

\* vm_destroy: cpus[cpu_index].destroy()? with both guards held; an Err
\* returns at once (both guards dropped, the list not cleared).
vm_destroy_cpu(t) ==
    /\ pc[t] = "vd_cpu"
    /\ IF idx[t] >= cpus_len
       THEN /\ Panic(t, TRUE, TRUE)
            /\ UNCHANGED <<cpu_state, idx, cur, faults_left>>
       ELSE /\ UNCHANGED <<state_poisoned, cpus_poisoned>>
            /\ \E ok \in Outcomes :
                 IF ok
                 THEN /\ cpu_state' = [cpu_state EXCEPT ![idx[t]] = cpu_op("destroy", @)]
                      /\ idx' = [idx EXCEPT ![t] = @ + 1]
                      /\ cur' = [cur EXCEPT ![t].cpu_ops = @ + 1]
                      /\ pc' = [pc EXCEPT ![t] = LoopPc(idx[t] + 1, "vd_cpu", "vd_clear")]
                      /\ UNCHANGED <<faults_left, state_owner, cpus_owner>>
                 ELSE /\ faults_left' = faults_left - 1
                      /\ state_owner' = 0
                      /\ cpus_owner' = 0
                      /\ pc' = [pc EXCEPT ![t] = AfterAction(t)]
                      /\ UNCHANGED <<cpu_state, idx, cur>>
    /\ UNCHANGED <<vm_state, cpus_len, cpu_thread, barrier_arrived,
                   start_written, power_button, events, log, ncalls,
                   start_issued>>
    /\ UNCHANGED qmp_vars
    /\ UNCHANGED ext_vars

\* vm_destroy: cpus.clear(); Ok(()) drops both guards.
vm_destroy_clear(t) ==
    /\ pc[t] = "vd_clear"
    /\ cpus_len' = 0
    /\ state_owner' = 0
    /\ cpus_owner' = 0
    /\ pc' = [pc EXCEPT ![t] = AfterAction(t)]
    /\ UNCHANGED <<vm_state, state_poisoned, cpus_poisoned, cpu_state,
                   cpu_thread, barrier_arrived, start_written, power_button,
                   events, cur, idx, log, ncalls, faults_left, start_issued>>
    /\ UNCHANGED qmp_vars
    /\ UNCHANGED ext_vars

\* notify_lifecycle, (_, Shutdown) arm: self.power_button.write(1).
nl_power(t) ==
    /\ pc[t] = "nl_power"
    /\ power_button' = power_button + 1
    /\ pc' = [pc EXCEPT ![t] = "nl_recheck"]
    /\ UNCHANGED <<vm_state, state_owner, state_poisoned, cpus_owner,
                   cpus_poisoned, cpus_len, cpu_state, cpu_thread,
                   barrier_arrived, start_written, events, cur, idx, log,
                   ncalls, faults_left, start_issued>>
    /\ UNCHANGED qmp_vars
    /\ UNCHANGED ext_vars

\* notify_lifecycle, second check: lock the state cell again and compare it
\* with `new`.
nl_recheck(t) ==
    /\ pc[t] = "nl_recheck"
    /\ state_owner = 0
    /\ IF state_poisoned
       THEN /\ Panic(t, FALSE, FALSE)
            /\ UNCHANGED cur
       ELSE /\ cur' = [cur EXCEPT ![t].ret = (vm_state = cur[t].new)]
            /\ pc' = [pc EXCEPT ![t] = "return"]
            /\ UNCHANGED <<state_owner, state_poisoned, cpus_owner, cpus_poisoned>>
    /\ UNCHANGED <<vm_state, cpus_len, cpu_state, cpu_thread, barrier_arrived,
                   start_written, power_button, events, idx, log, ncalls,
                   faults_left, start_issued>>
    /\ UNCHANGED qmp_vars
    /\ UNCHANGED ext_vars

\* ---------------------------------------------------------------- vm_start
\* LightMachine::vm_start(paused, use_seccomp) called directly (the VM is
\* started once).
vm_start(t, paused) ==
    /\ ~start_issued
    /\ start_issued' = TRUE
    /\ Begin(t, [NoCall EXCEPT !.op = "vm_start", !.act = "vm_start",
                               !.paused = paused])
    /\ pc' = [pc EXCEPT ![t] = ActionEntry("vm_start")]
    /\ UNCHANGED <<vm_state, state_owner, state_poisoned, cpus_owner,
                   cpus_poisoned, cpus_len, cpu_state, cpu_thread,
                   barrier_arrived, start_written, power_button, events, log,
                   faults_left>>
    /\ UNCHANGED qmp_vars
    /\ UNCHANGED ext_vars

\* vm_start: let cpu = self.cpus.lock().unwrap()[cpu_index].clone().
vm_start_clone(t) ==
    /\ pc[t] = "vs_clone"
    /\ cpus_owner = 0
    /\ IF cpus_poisoned
       THEN Panic(t, FALSE, FALSE)
       ELSE IF idx[t] >= cpus_len
       THEN Panic(t, FALSE, TRUE)
       ELSE /\ pc' = [pc EXCEPT ![t] = "vs_start"]
            /\ UNCHANGED <<state_owner, state_poisoned, cpus_owner, cpus_poisoned>>
    /\ UNCHANGED <<vm_state, cpus_len, cpu_state, cpu_thread, barrier_arrived,
                   start_written, power_button, events, cur, idx, log, ncalls,
                   faults_left, start_issued>>
    /\ UNCHANGED qmp_vars
    /\ UNCHANGED ext_vars

\* CPU::start(cpu, barrier, paused, use_seccomp)?: the vCPU leaves Created and
\* its thread is spawned; a vCPU that is not Created refuses.
vm_start_cpu(t) ==
    /\ pc[t] = "vs_start"
    /\ \E ok \in Outcomes :
         IF ok /\ cpu_state[idx[t]] = "Created"
         THEN /\ cpu_state' = [cpu_state EXCEPT ![idx[t]] =
                                  IF cur[t].paused THEN "Paused" ELSE "Running"]
              /\ cpu_thread' = [cpu_thread EXCEPT ![idx[t]] = "spawned"]
              /\ idx' = [idx EXCEPT ![t] = @ + 1]
              /\ cur' = [cur EXCEPT ![t].cpu_ops = @ + 1]
              /\ pc' = [pc EXCEPT ![t] = LoopPc(idx[t] + 1, "vs_clone", "vs_write")]
              /\ UNCHANGED faults_left
         ELSE /\ faults_left' = IF ok THEN faults_left ELSE faults_left - 1
              /\ pc' = [pc EXCEPT ![t] = AfterAction(t)]
              /\ UNCHANGED <<cpu_state, cpu_thread, idx, cur>>
    /\ UNCHANGED <<vm_state, state_owner, state_poisoned, cpus_owner,
                   cpus_poisoned, cpus_len, barrier_arrived, start_written,
                   power_button, events, log, ncalls, start_issued>>
    /\ UNCHANGED qmp_vars
    /\ UNCHANGED ext_vars

vm_start_write_dropped(t) ==
    /\ pc[t] = "vs_write"
    /\ state_owner = 0
    /\ IF state_poisoned
       THEN /\ Panic(t, FALSE, FALSE)
            /\ UNCHANGED <<vm_state, start_written>>
       ELSE /\ vm_state' = IF cur[t].paused THEN "Paused" ELSE "Running"
            /\ start_written' = TRUE
            /\ pc' = [pc EXCEPT ![t] = "vs_wait"]
            /\ UNCHANGED <<state_owner, state_poisoned, cpus_owner, cpus_poisoned>>
    /\ UNCHANGED <<cpus_len, cpu_state, cpu_thread, barrier_arrived,
                   power_button, events, cur, idx, log, ncalls, faults_left,
                   start_issued>>
    /\ UNCHANGED qmp_vars
    /\ UNCHANGED ext_vars

\* vm_start: lock the state cell and write Paused or Running; the guard lives
\* to the end of the function.
vm_start_write(t) ==
    /\ pc[t] = "vs_write"
    /\ state_owner = 0
    /\ IF state_poisoned
       THEN /\ Panic(t, FALSE, FALSE)
            /\ UNCHANGED <<vm_state, start_written>>
       ELSE /\ state_owner' = t
            /\ vm_state' = IF cur[t].paused THEN "Paused" ELSE "Running"
            /\ start_written' = TRUE
            /\ pc' = [pc EXCEPT ![t] = "vs_wait"]
            /\ UNCHANGED <<state_poisoned, cpus_owner, cpus_poisoned>>
    /\ UNCHANGED <<cpus_len, cpu_state, cpu_thread, barrier_arrived,
                   power_button, events, cur, idx, log, ncalls, faults_left,
                   start_issued>>
    /\ UNCHANGED qmp_vars
    /\ UNCHANGED ext_vars

\* vm_start: cpus_thread_barrier.wait(), arrival.
vm_start_wait(t) ==
    /\ pc[t] = "vs_wait"
    /\ barrier_arrived' = barrier_arrived + 1
    /\ pc' = [pc EXCEPT ![t] = "vs_blocked"]
    /\ UNCHANGED <<vm_state, state_owner, state_poisoned, cpus_owner,
                   cpus_poisoned, cpus_len, cpu_state, cpu_thread,
                   start_written, power_button, events, cur, idx, log, ncalls,
                   faults_left, start_issued>>
    /\ UNCHANGED qmp_vars
    /\ UNCHANGED ext_vars

\* vm_start: the wait returns once every party has arrived; Ok(()) drops the
\* state guard.
vm_start_return(t) ==
    /\ pc[t] = "vs_blocked"
    /\ barrier_arrived >= BarrierParties
    /\ state_owner' = IF state_owner = t THEN 0 ELSE state_owner
    /\ cur' = [cur EXCEPT ![t].ret = (cur[t].op = "vm_start")]
    /\ pc' = [pc EXCEPT ![t] = AfterAction(t)]
    /\ UNCHANGED <<vm_state, state_poisoned, cpus_owner, cpus_poisoned,
                   cpus_len, cpu_state, cpu_thread, barrier_arrived,
                   start_written, power_button, events, idx, log, ncalls,
                   faults_left, start_issued>>
    /\ UNCHANGED qmp_vars
    /\ UNCHANGED ext_vars

\* ------------------------------------------------------------ vCPU threads
\* The thread spawned by CPU::start arrives at the start barrier.
vcpu_arrive(c) ==
    /\ cpu_thread[c] = "spawned"
    /\ cpu_thread' = [cpu_thread EXCEPT ![c] = "barrier"]
    /\ barrier_arrived' = barrier_arrived + 1
    /\ UNCHANGED <<vm_state, state_owner, state_poisoned, cpus_owner,
                   cpus_poisoned, cpus_len, cpu_state, start_written,
                   power_button, events, pc, cur, idx, log, ncalls, faults_left,
                   start_issued>>
    /\ UNCHANGED qmp_vars
    /\ UNCHANGED ext_vars

\* The thread passes the barrier and enters its run loop.
vcpu_pass(c) ==
    /\ cpu_thread[c] = "barrier"
    /\ barrier_arrived >= BarrierParties
    /\ cpu_thread' = [cpu_thread EXCEPT ![c] = "run"]
    /\ UNCHANGED <<vm_state, state_owner, state_poisoned, cpus_owner,
                   cpus_poisoned, cpus_len, cpu_state, barrier_arrived,
                   start_written, power_button, events, pc, cur, idx, log,
                   ncalls, faults_left, start_issued>>
    /\ UNCHANGED qmp_vars
    /\ UNCHANGED ext_vars

\* The run loop of a vCPU follows the vCPU's state: a paused vCPU parks on its
\* condition variable, a resumed one goes back to the run primitive, a
\* destroyed one leaves the loop.
vcpu_park(c) ==
    /\ cpu_thread[c] = "run"
    /\ cpu_state[c] = "Paused"
    /\ cpu_thread' = [cpu_thread EXCEPT ![c] = "parked"]
    /\ UNCHANGED <<vm_state, state_owner, state_poisoned, cpus_owner,
                   cpus_poisoned, cpus_len, cpu_state, barrier_arrived,
                   start_written, power_button, events, pc, cur, idx, log,
                   ncalls, faults_left, start_issued>>
    /\ UNCHANGED qmp_vars
    /\ UNCHANGED ext_vars

vcpu_wake(c) ==
    /\ cpu_thread[c] = "parked"
    /\ cpu_state[c] = "Running"
    /\ cpu_thread' = [cpu_thread EXCEPT ![c] = "run"]
    /\ UNCHANGED <<vm_state, state_owner, state_poisoned, cpus_owner,
                   cpus_poisoned, cpus_len, cpu_state, barrier_arrived,
                   start_written, power_button, events, pc, cur, idx, log,
                   ncalls, faults_left, start_issued>>
    /\ UNCHANGED qmp_vars
    /\ UNCHANGED ext_vars

vcpu_exit(c) ==
    /\ cpu_thread[c] \in {"run", "parked"}
    /\ cpu_state[c] = "Destroyed"
    /\ cpu_thread' = [cpu_thread EXCEPT ![c] = "exited"]
    /\ UNCHANGED <<vm_state, state_owner, state_poisoned, cpus_owner,
                   cpus_poisoned, cpus_len, cpu_state, barrier_arrived,
                   start_written, power_button, events, pc, cur, idx, log,
                   ncalls, faults_left, start_issued>>
    /\ UNCHANGED qmp_vars
    /\ UNCHANGED ext_vars

\* ---------------------------------------------------------------- queries
\* schema::StatusInfo::default(): not running, no single step, the default
\* RunState.
DefaultStatusInfo ==
    [kind |-> "status", running |-> FALSE, singlestep |-> FALSE, status |-> "default"]

StatusInfoStopped(s) ==
    IF s = "Running"
    THEN [kind |-> "status", running |-> TRUE, singlestep |-> FALSE, status |-> "running"]
    ELSE IF s = "Paused"
    THEN [kind |-> "status", running |-> FALSE, singlestep |-> FALSE, status |-> "paused"]
    ELSE DefaultStatusInfo

\* The match of query_status on the state it read.
StatusInfo(s) ==
    IF s = "Running"
    THEN [kind |-> "status", running |-> TRUE, singlestep |-> FALSE, status |-> "running"]
    ELSE IF s = "Paused"
    THEN [kind |-> "status", running |-> TRUE, singlestep |-> FALSE, status |-> "paused"]
    ELSE DefaultStatusInfo

\* DeviceInterface::query_status, entry.
query_status(t) ==
    /\ Begin(t, [NoCall EXCEPT !.op = "query_status"])
    /\ pc' = [pc EXCEPT ![t] = "qs_read"]
    /\ UNCHANGED <<vm_state, state_owner, state_poisoned, cpus_owner,
                   cpus_poisoned, cpus_len, cpu_state, cpu_thread,
                   barrier_arrived, start_written, power_button, events, log,
                   faults_left, start_issued>>
    /\ UNCHANGED qmp_vars
    /\ UNCHANGED ext_vars

\* query_status: lock the state cell, match on it and build the StatusInfo;
\* the guard is dropped when the function returns.
qs_read(t) ==
    /\ pc[t] = "qs_read"
    /\ state_owner = 0
    /\ IF state_poisoned
       THEN /\ Panic(t, FALSE, FALSE)
            /\ UNCHANGED cur
       ELSE /\ cur' = [cur EXCEPT ![t].result = StatusInfo(vm_state), ![t].old = vm_state]
            /\ pc' = [pc EXCEPT ![t] = "return"]
            /\ UNCHANGED <<state_owner, state_poisoned, cpus_owner, cpus_poisoned>>
    /\ UNCHANGED <<vm_state, cpus_len, cpu_state, cpu_thread, barrier_arrived,
                   start_written, power_button, events, idx, log, ncalls,
                   faults_left, start_issued>>
    /\ UNCHANGED qmp_vars
    /\ UNCHANGED ext_vars

\* cpu_topo.online_mask after LightMachine::new(): one entry of 1 per vCPU
\* slot; nothing writes it afterwards.
online_mask == [c \in CPUs |-> 1]

get_mask(c) == online_mask[c]

\* DeviceInterface::query_cpus, entry: cpu_vec is empty.
query_cpus(t) ==
    /\ Begin(t, [NoCall EXCEPT !.op = "query_cpus",
                               !.result = [kind |-> "cpus", cpus |-> <<>>]])
    /\ pc' = [pc EXCEPT ![t] = LoopPc(0, "qc_cpu", "return")]
    /\ UNCHANGED <<vm_state, state_owner, state_poisoned, cpus_owner,
                   cpus_poisoned, cpus_len, cpu_state, cpu_thread,
                   barrier_arrived, start_written, power_button, events, log,
                   faults_left, start_issued>>
    /\ UNCHANGED qmp_vars
    /\ UNCHANGED ext_vars

\* query_cpus, one iteration: a slot whose mask entry is 1 is read with
\* self.cpus.lock().unwrap()[cpu_index].tid() (a panic when cpu_index is past
\* the end of the list) and pushed on cpu_vec.
qc_cpu(t) ==
    /\ pc[t] = "qc_cpu"
    /\ IF get_mask(idx[t]) # 1
       THEN /\ idx' = [idx EXCEPT ![t] = @ + 1]
            /\ pc' = [pc EXCEPT ![t] = LoopPc(idx[t] + 1, "qc_cpu", "return")]
            /\ UNCHANGED <<cur, state_owner, state_poisoned, cpus_owner, cpus_poisoned>>
       ELSE /\ cpus_owner = 0
            /\ IF cpus_poisoned
               THEN /\ Panic(t, FALSE, FALSE)
                    /\ UNCHANGED <<idx, cur>>
               ELSE IF idx[t] >= cpus_len
               THEN /\ Panic(t, FALSE, TRUE)
                    /\ UNCHANGED <<idx, cur>>
               ELSE /\ cur' = [cur EXCEPT ![t].result.cpus = Append(@, idx[t])]
                    /\ idx' = [idx EXCEPT ![t] = @ + 1]
                    /\ pc' = [pc EXCEPT ![t] = LoopPc(idx[t] + 1, "qc_cpu", "return")]
                    /\ UNCHANGED <<state_owner, state_poisoned, cpus_owner, cpus_poisoned>>
    /\ UNCHANGED <<vm_state, cpus_len, cpu_state, cpu_thread, barrier_arrived,
                   start_written, power_button, events, log, ncalls,
                   faults_left, start_issued>>
    /\ UNCHANGED qmp_vars
    /\ UNCHANGED ext_vars

\* MainLoopManager::main_loop_should_exit: the state cell, read under its
\* mutex, equals Shutdown.
main_loop_should_exit == vm_state = "Shutdown"

\* ---------------------------------------------------------------- returns
\* The response qmp_command_exec builds for a command whose handler returned
\* result: the three queries and getfd store the handler's Response, every
\* other command keeps the empty response; change_id sets the id last.
qmp_command_exec(command, result, id) ==
    IF command \in {"query_status", "query_cpus", "query_hotpluggable_cpus"}
    THEN change_id(create_response(result, None), id)
    ELSE IF command = "getfd"
    THEN change_id(IF result.kind = "error"
                   THEN create_error_response(result.class, None)
                   ELSE create_empty_response, id)
    ELSE change_id(create_empty_response, id)

EventOf_unconditional(c) ==
    IF c.op = "pause" THEN <<"STOP">>
    ELSE IF c.op = "resume" THEN <<"RESUME">>
    ELSE <<>>

\* The event a public operation emits when it returns.
EventOf(c) ==
    IF c.op = "pause" /\ c.ret THEN <<"STOP">>
    ELSE IF c.op = "resume" /\ c.ret THEN <<"RESUME">>
    ELSE <<>>

\* The operation returns to its caller: pause() and resume() emit their event
\* when notify_lifecycle returned true, and a QMP command gets its response.
finish(t) ==
    /\ pc[t] = "return"
    /\ events' = events \o EventOf(cur[t])
    /\ log' = [log EXCEPT ![t] = Append(@,
                 [op |-> cur[t].op, old |-> cur[t].old, new |-> cur[t].new,
                  ret |-> cur[t].ret, n |-> cur[t].n,
                  cpu_ops |-> cur[t].cpu_ops, emitted |-> EventOf(cur[t]),
                  quiet |-> (cur[t].quiet /\ OthersIdle(t) /\ ncalls = cur[t].n),
                  pre |-> cur[t].pre, post |-> vm_state, act |-> cur[t].act,
                  result |-> cur[t].result, args |-> cur[t].args,
                  resp |-> IF cur[t].qmp
                           THEN qmp_command_exec(cur[t].op, cur[t].ret, None)
                           ELSE create_error_response("none", None)])]
    /\ pc' = [pc EXCEPT ![t] = "idle"]
    /\ cur' = [cur EXCEPT ![t] = NoCall]
    /\ idx' = [idx EXCEPT ![t] = 0]
    /\ UNCHANGED <<vm_state, state_owner, state_poisoned, cpus_owner,
                   cpus_poisoned, cpus_len, cpu_state, cpu_thread,
                   barrier_arrived, start_written, power_button, ncalls,
                   faults_left, start_issued>>
    /\ UNCHANGED qmp_vars
    /\ UNCHANGED ext_vars

\* ---------------------------------------------------------------- QMP
\* The ids a request may carry: none, or one of 0..MaxId.
Ids == {None} \cup {<<k>> : k \in 0..MaxId}

\* The argument objects a request may carry.
ArgTokens == {"a", "b"}

\* The variants of QmpCommand that qmp_command_exec names.
QmpCommand == {"stop", "cont", "query_status", "query_cpus",
               "query_hotpluggable_cpus", "device_add", "device_del",
               "blockdev_add", "netdev_add", "quit", "getfd"}

WithArguments == {"device_add", "device_del", "blockdev_add", "netdev_add", "getfd"}

\* The lines a client may send: a command qmp_command_exec names, a request
\* whose command name is none of them, or a line that is not a request.
Lines ==
    {[kind |-> "command", name |-> nm, id |-> i, arguments |-> "none", if_fd |-> None] :
        nm \in QmpCommand \ WithArguments, i \in Ids}
    \cup {[kind |-> "command", name |-> nm, id |-> i, arguments |-> a, if_fd |-> None] :
        nm \in WithArguments \ {"getfd"}, i \in Ids, a \in ArgTokens}
    \cup {[kind |-> "command", name |-> "getfd", id |-> i, arguments |-> a, if_fd |-> f] :
        i \in Ids, a \in ArgTokens, f \in Ids}
    \cup {[kind |-> "unknown", name |-> "unknown", id |-> i, arguments |-> "none", if_fd |-> None] :
        i \in Ids}
    \cup {[kind |-> "malformed", name |-> "none", id |-> None, arguments |-> "none", if_fd |-> None]}

\* SocketHandler::decode_line on a line that was read: a command parses to its
\* variant; a line that is not a request is a parse error; a request with
\* another command name is a parse error, or a variant qmp_command_exec does
\* not name when the schema has one.
decode_line(line) ==
    IF line.kind = "command" THEN {[ok |-> TRUE, name |-> line.name]}
    ELSE IF line.kind = "unknown"
    THEN {[ok |-> FALSE, name |-> "none"], [ok |-> TRUE, name |-> "other"]}
    ELSE {[ok |-> FALSE, name |-> "none"]}

create_command_matches_swapped(name) ==
    CASE name = "stop" -> "resume"
      [] name = "cont" -> "pause"
      [] name \in {"query_status", "query_cpus", "query_hotpluggable_cpus",
                   "device_add", "device_del", "blockdev_add", "netdev_add"} -> name
      [] OTHER -> "none"

\* create_command_matches! as qmp_command_exec instantiates it: the controller
\* operation the first match runs for a command, "none" for the arm _ => None.
create_command_matches(name) ==
    CASE name = "stop" -> "pause"
      [] name = "cont" -> "resume"
      [] name \in {"query_status", "query_cpus", "query_hotpluggable_cpus",
                   "device_add", "device_del", "blockdev_add", "netdev_add"} -> name
      [] OTHER -> "none"

\* The second match of qmp_command_exec, for what the macro does not cover.
second_match(name) ==
    CASE name = "quit" -> "destroy"
      [] name = "getfd" -> "getfd"
      [] OTHER -> "none"

\* The two matches of qmp_command_exec on a command: the operations it calls in
\* order and the id it passes to change_id. The second match runs when the
\* first yielded no id.
Dispatch(name, id) ==
    LET first == create_command_matches(name)
        id1 == IF first # "none" THEN id ELSE None
        second == IF id1 = None THEN second_match(name) ELSE "none"
    IN [todo |-> (IF first # "none" THEN <<first>> ELSE <<>>)
                 \o (IF second # "none" THEN <<second>> ELSE <<>>),
        resp_id |-> IF id1 # None THEN id1
                    ELSE IF second # "none" THEN id ELSE None]

\* qmp_command_match!: the arguments a handler is passed, taken field by field
\* from the command's arguments; getfd is also passed the received fd.
qmp_command_match(op, line) ==
    CASE op = "device_add" ->
           [fields |-> <<"id", "driver", "addr", "lun">>, from |-> line.arguments, if_fd |-> None]
      [] op = "device_del" ->
           [fields |-> <<"id">>, from |-> line.arguments, if_fd |-> None]
      [] op = "blockdev_add" ->
           [fields |-> <<"node_name", "file", "cache", "read_only">>,
            from |-> line.arguments, if_fd |-> None]
      [] op = "netdev_add" ->
           [fields |-> <<"id", "if_name", "fds">>, from |-> line.arguments, if_fd |-> None]
      [] op = "getfd" ->
           [fields |-> <<"fd_name">>, from |-> line.arguments, if_fd |-> line.if_fd]
      [] OTHER -> NoArgs

\* The handlers whose effect on the machine is not part of this model.
DeviceOps == {"query_hotpluggable_cpus", "device_add", "device_del",
              "blockdev_add", "netdev_add", "getfd"}

\* DeviceInterface::getfd: with a received fd the empty response, without one
\* a GenericError.
getfd(args) ==
    IF args.if_fd # None THEN Empty
    ELSE [kind |-> "error", class |-> "GenericError"]

\* The names an fd can be stored under.
Names == ArgTokens \cup {"7"}

\* The argument objects of getfd and netdev_add requests.
FdArgTokens == ArgTokens \cup {"7", "b:a", "if", "bare"}

\* The fields of an argument object: "b:a" carries fds "b:a", "if" carries an
\* if_name and no fds, "bare" carries neither; any other object t carries the
\* fd name t and fds "t".
ArgumentsOf(tok) ==
    CASE tok = "b:a" ->
           [id |-> "net0", fd_name |-> tok, if_name |-> None, fds |-> << <<"b", "a">> >>]
      [] tok = "if" ->
           [id |-> "net0", fd_name |-> tok, if_name |-> <<"eth0">>, fds |-> None]
      [] tok = "bare" ->
           [id |-> "net0", fd_name |-> tok, if_name |-> None, fds |-> None]
      [] OTHER ->
           [id |-> "net0", fd_name |-> tok, if_name |-> None, fds |-> << <<tok>> >>]

set_fd_dropped(table, name, fd) == table

\* QmpChannel::set_fd: insert into the named-fd table.
set_fd(table, name, fd) == [table EXCEPT ![name] = <<fd>>]

\* QmpChannel::get_fd.
get_fd(table, name) == table[name]

netdev_fd_first(segments) == segments[1]

\* netdev_add: the fd name in fds, a string given by its ':'-separated
\* segments; with a ':' in it the name is the last segment.
netdev_fd(segments) ==
    IF Len(segments) > 1 THEN segments[Len(segments)] ELSE segments[1]

\* str::parse::<i32> on the names of the model.
parse_i32(name) == IF name = "7" THEN <<7>> ELSE None

\* netdev_add up to the bus: the config it builds, or the early return false
\* when the name is neither registered nor a number.
netdev_add(id, if_name, fds_arg, table) ==
    LET config == [iface_id |-> id, host_dev_name |-> "", tap_fd |-> None]
    IN IF fds_arg # None
       THEN LET name == netdev_fd(fds_arg[1])
            IN IF get_fd(table, name) # None
               THEN [built |-> TRUE, config |-> [config EXCEPT !.tap_fd = get_fd(table, name)]]
               ELSE IF parse_i32(name) # None
               THEN [built |-> TRUE, config |-> [config EXCEPT !.tap_fd = parse_i32(name)]]
               ELSE [built |-> FALSE, config |-> config]
       ELSE IF if_name # None
       THEN [built |-> TRUE, config |-> [config EXCEPT !.host_dev_name = if_name[1]]]
       ELSE [built |-> TRUE, config |-> config]

\* What a device handler returns and what it leaves in the named-fd table and
\* on the bus. getfd stores a received fd; netdev_add hands the config it
\* built to bus.add_replaceable_config, which registers it or fails.
DeviceResults(op, args) ==
    IF op = "getfd"
    THEN {[result |-> getfd(args),
           fds |-> IF args.if_fd # None
                   THEN set_fd(fds, ArgumentsOf(args.from).fd_name, args.if_fd[1])
                   ELSE fds,
           net_configs |-> net_configs, config |-> None]}
    ELSE IF op = "netdev_add"
    THEN LET a == ArgumentsOf(args.from)
             r == netdev_add(a.id, a.if_name, a.fds, fds)
         IN IF r.built
            THEN {[result |-> [kind |-> "bool", value |-> TRUE], fds |-> fds,
                   net_configs |-> [net_configs EXCEPT ![a.id] = <<r.config>>],
                   config |-> <<r.config>>],
                  [result |-> [kind |-> "bool", value |-> FALSE], fds |-> fds,
                   net_configs |-> net_configs, config |-> <<r.config>>]}
            ELSE {[result |-> [kind |-> "bool", value |-> FALSE], fds |-> fds,
                   net_configs |-> net_configs, config |-> None]}
    ELSE IF op = "query_hotpluggable_cpus"
    THEN {[result |-> [kind |-> "hotpluggable"], fds |-> fds,
           net_configs |-> net_configs, config |-> None]}
    ELSE {[result |-> [kind |-> "bool"], fds |-> fds,
           net_configs |-> net_configs, config |-> None]}

\* A device handler is called with its arguments and returns.
device_call(t, op, args) ==
    /\ \E o \in DeviceResults(op, args) :
         /\ Begin(t, [NoCall EXCEPT !.op = op, !.args = args, !.result = o.result])
         /\ fds' = o.fds
         /\ net_configs' = o.net_configs
         /\ fd_log' = IF op \in {"getfd", "netdev_add"}
                      THEN Append(fd_log, [op |-> op, args |-> args,
                                           result |-> o.result, config |-> o.config,
                                           fds0 |-> fds, fds |-> o.fds,
                                           net0 |-> net_configs, net |-> o.net_configs])
                      ELSE fd_log
    /\ pc' = [pc EXCEPT ![t] = "return"]
    /\ UNCHANGED <<vm_state, state_owner, state_poisoned, cpus_owner,
                   cpus_poisoned, cpus_len, cpu_state, cpu_thread,
                   barrier_arrived, start_written, power_button, events, log,
                   faults_left, start_issued>>
    /\ UNCHANGED qmp_vars
    /\ UNCHANGED <<chan_vars, boot, codec, dev_vars>>

machine_vars == <<vm_state, state_owner, state_poisoned, cpus_owner,
                  cpus_poisoned, cpus_len, cpu_state, cpu_thread,
                  barrier_arrived, start_written, power_button, pc, cur, idx,
                  log, ncalls, faults_left, start_issued>>

\* handle_qmp on a parse error: the response is a GenericError without id.
ParseError(line) ==
    [NoLine EXCEPT !.n = qmp_line.n + 1, !.kind = line.kind, !.id = line.id,
                   !.mark = Len(log[MainThread]), !.state0 = vm_state,
                   !.resp = create_error_response("GenericError", None)]

\* handle_qmp reads a line and decodes it. A parse error goes to the error arm;
\* a command enters qmp_command_exec with the empty response and its two
\* matches decided.
handle_qmp(line) ==
    /\ qmp_pc = "wait"
    /\ pc[MainThread] = "idle"
    /\ \E d \in decode_line(line) :
         IF d.ok
         THEN LET disp == Dispatch(d.name, line.id)
              IN /\ qmp_line' = [NoLine EXCEPT
                                   !.n = qmp_line.n + 1, !.kind = line.kind,
                                   !.name = d.name, !.id = line.id,
                                   !.arguments = line.arguments,
                                   !.if_fd = line.if_fd, !.todo = disp.todo,
                                   !.mark = Len(log[MainThread]),
                                   !.state0 = vm_state,
                                   !.resp_id = disp.resp_id]
                 /\ qmp_pc' = "exec"
         ELSE /\ qmp_line' = ParseError(line)
              /\ qmp_pc' = "send_err"
    /\ UNCHANGED <<machine_vars, events, qmp_out, exit_status>>
    /\ UNCHANGED ext_vars

\* qmp_command_exec is about to call the controller operation op.
CallNext(op) ==
    /\ qmp_pc = "exec"
    /\ qmp_line.k < Len(qmp_line.todo)
    /\ qmp_line.todo[qmp_line.k + 1] = op
    /\ Len(log[MainThread]) = qmp_line.mark + qmp_line.k

\* The command whose arm of qmp_command_exec called the operation op.
CommandOf(op) ==
    CASE op = "pause" -> "stop"
      [] op = "resume" -> "cont"
      [] op = "destroy" -> "quit"
      [] OTHER -> op

\* The commands whose arm assigns the handler's Response to qmp_response.
StoresResponse == {"query_status", "query_cpus", "query_hotpluggable_cpus", "getfd"}

\* A controller operation returned to qmp_command_exec: the queries and getfd
\* store the Response, quit sets shutdown_flag, the other results are dropped.
qmp_exec_return ==
    /\ qmp_pc = "exec"
    /\ qmp_line.k < Len(qmp_line.todo)
    /\ pc[MainThread] = "idle"
    /\ Len(log[MainThread]) = qmp_line.mark + qmp_line.k + 1
    /\ LET call == log[MainThread][Len(log[MainThread])]
       IN qmp_line' = [qmp_line EXCEPT
                         !.k = @ + 1,
                         !.resp = IF CommandOf(call.op) \in StoresResponse
                                  THEN qmp_command_exec(CommandOf(call.op), call.result, None)
                                  ELSE @,
                         !.shutdown_flag = (@ \/ call.op = "destroy")]
    /\ UNCHANGED <<machine_vars, events, qmp_pc, qmp_out, exit_status>>
    /\ UNCHANGED ext_vars

\* qmp_command_exec after its matches: change_id and serialize.
qmp_exec_done ==
    /\ qmp_pc = "exec"
    /\ qmp_line.k = Len(qmp_line.todo)
    /\ qmp_line' = [qmp_line EXCEPT !.resp = change_id(@, qmp_line.resp_id)]
    /\ qmp_pc' = "send"
    /\ UNCHANGED <<machine_vars, events, qmp_out, exit_status>>
    /\ UNCHANGED ext_vars

\* What is written to the socket for a response.
Sent == [kind |-> "response", n |-> qmp_line.n, line |-> qmp_line.kind,
         name |-> qmp_line.name, id |-> qmp_line.id, resp |-> qmp_line.resp,
         arguments |-> qmp_line.arguments, if_fd |-> qmp_line.if_fd,
         calls |-> SubSeq(log[MainThread], qmp_line.mark + 1, Len(log[MainThread])),
         state0 |-> qmp_line.state0, state |-> vm_state]

qmp_send_dropped ==
    /\ qmp_pc = "send"
    /\ qmp_pc' = IF qmp_line.shutdown_flag THEN "event" ELSE "wait"
    /\ UNCHANGED <<machine_vars, events, qmp_line, qmp_out, exit_status>>
    /\ UNCHANGED ext_vars

\* handle_qmp sends the response of a command; a quit goes on to the event,
\* anything else returns Ok(()).
qmp_send ==
    /\ qmp_pc = "send"
    /\ qmp_out' = Append(qmp_out, Sent)
    /\ qmp_pc' = IF qmp_line.shutdown_flag THEN "event" ELSE "wait"
    /\ UNCHANGED <<machine_vars, events, qmp_line, exit_status>>
    /\ UNCHANGED ext_vars

qmp_send_err_stop ==
    /\ qmp_pc = "send_err"
    /\ qmp_out' = Append(qmp_out, Sent)
    /\ qmp_pc' = "closed"
    /\ UNCHANGED <<machine_vars, events, qmp_line, exit_status>>
    /\ UNCHANGED ext_vars

\* handle_qmp sends the GenericError response of a parse error and returns
\* Ok(()).
qmp_send_err ==
    /\ qmp_pc = "send_err"
    /\ qmp_out' = Append(qmp_out, Sent)
    /\ qmp_pc' = "wait"
    /\ UNCHANGED <<machine_vars, events, qmp_line, exit_status>>
    /\ UNCHANGED ext_vars

\* The SHUTDOWN event of handle_qmp.
ShutdownEvent == [kind |-> "event", n |-> qmp_line.n, event |-> "SHUTDOWN",
                  guest |-> FALSE, reason |-> "host-qmp-quit",
                  state |-> vm_state]

qmp_exit_early ==
    /\ qmp_pc = "event"
    /\ exit_status' = <<ExitStatus>>
    /\ qmp_pc' = "exited"
    /\ UNCHANGED <<machine_vars, events, qmp_line, qmp_out>>
    /\ UNCHANGED ext_vars

\* handle_qmp after the response of a quit: event!(SHUTDOWN; ...).
qmp_shutdown_event ==
    /\ qmp_pc = "event"
    /\ qmp_out' = Append(qmp_out, ShutdownEvent)
    /\ events' = Append(events, "SHUTDOWN")
    /\ qmp_pc' = "exit"
    /\ UNCHANGED <<machine_vars, qmp_line, exit_status>>
    /\ UNCHANGED ext_vars

\* std::process::exit(1).
qmp_exit ==
    /\ qmp_pc = "exit"
    /\ exit_status' = <<ExitStatus>>
    /\ qmp_pc' = "exited"
    /\ UNCHANGED <<machine_vars, events, qmp_line, qmp_out>>
    /\ UNCHANGED ext_vars

\* ---------------------------------------------------------------- events
\* The writers of the sessions that are bound one after the other.
Writers == {"w1", "w2"}

EventNames == {"STOP", "RESUME"}

not_chan_vars == <<machine_vars, events, qmp_vars, fd_vars, boot, codec, dev_vars>>

\* QmpChannel::is_connected, on a lock that is not poisoned.
is_connected == event_writer # None

\* The calls made on the channel so far, without the write steps.
ChanCalls == SelectSeq(chan_log, LAMBDA e : e.op # "write")

\* QmpChannel::bind_writer: event_writer.write().unwrap() and the assignment.
bind_writer(w) ==
    /\ sess_pc = "run"
    /\ IF writer_poisoned
       THEN sess_pc' = "panicked" /\ UNCHANGED event_writer
       ELSE event_writer' = <<w>> /\ UNCHANGED sess_pc
    /\ chan_log' = Append(chan_log, [op |-> "bind_writer", writer |-> <<w>>,
                                     ok |-> ~writer_poisoned])
    /\ UNCHANGED <<writer_poisoned, wire, em_pc, em_event>>
    /\ UNCHANGED not_chan_vars

\* QmpChannel::unbind.
unbind ==
    /\ sess_pc = "run"
    /\ IF writer_poisoned
       THEN sess_pc' = "panicked" /\ UNCHANGED event_writer
       ELSE event_writer' = None /\ UNCHANGED sess_pc
    /\ chan_log' = Append(chan_log, [op |-> "unbind", writer |-> None,
                                     ok |-> ~writer_poisoned])
    /\ UNCHANGED <<writer_poisoned, wire, em_pc, em_event>>
    /\ UNCHANGED not_chan_vars

\* QmpChannel::send_event, the test `if Self::is_connected()`: the read lock is
\* taken and released; without a writer the function returns.
send_event(e) ==
    /\ em_pc = "idle"
    /\ IF writer_poisoned
       THEN em_pc' = "panicked" /\ UNCHANGED em_event
       ELSE IF is_connected
       THEN em_pc' = "write" /\ em_event' = e
       ELSE UNCHANGED <<em_pc, em_event>>
    /\ chan_log' = Append(chan_log, [op |-> "send_event", writer |-> event_writer,
                                     ok |-> ~writer_poisoned])
    /\ UNCHANGED <<event_writer, writer_poisoned, wire, sess_pc>>
    /\ UNCHANGED not_chan_vars

\* send_event, the body of the if: the write lock is taken, as_mut().unwrap()
\* takes the writer (a panic under the write lock when there is none), and the
\* line is flushed and written before the lock is released.
send_event_write ==
    /\ em_pc = "write"
    /\ IF writer_poisoned
       THEN /\ em_pc' = "panicked"
            /\ UNCHANGED <<writer_poisoned, wire>>
       ELSE IF event_writer = None
       THEN /\ em_pc' = "panicked"
            /\ writer_poisoned' = TRUE
            /\ UNCHANGED wire
       ELSE /\ wire' = Append(wire, [event |-> em_event, writer |-> event_writer,
                                     at |-> Len(chan_log) + 1])
            /\ em_pc' = "idle"
            /\ UNCHANGED writer_poisoned
    /\ chan_log' = Append(chan_log, [op |-> "write", writer |-> event_writer,
                                     ok |-> (~writer_poisoned /\ event_writer # None)])
    /\ UNCHANGED <<event_writer, em_event, sess_pc>>
    /\ UNCHANGED not_chan_vars

\* A thread that binds and unbinds the writer as sessions come and go, next to
\* a thread that emits events.
NextEvent ==
    \/ \E w \in Writers : Len(ChanCalls) < MaxChanOps /\ bind_writer(w)
    \/ Len(ChanCalls) < MaxChanOps /\ unbind
    \/ \E e \in EventNames : Len(ChanCalls) < MaxChanOps /\ send_event(e)
    \/ send_event_write

SpecEvent == Init /\ [][NextEvent]_vars

\* ---------------------------------------------------------------- system
CallerStep(t) ==
    \/ destroy_read(t)
    \/ nl_check(t)
    \/ vm_pause_cpu(t)
    \/ vm_pause_write(t)
    \/ vm_resume_cpu(t)
    \/ vm_resume_write(t)
    \/ vm_destroy_lock(t)
    \/ vm_destroy_cpus(t)
    \/ vm_destroy_cpu(t)
    \/ vm_destroy_clear(t)
    \/ nl_power(t)
    \/ nl_recheck(t)
    \/ vm_start_clone(t)
    \/ vm_start_cpu(t)
    \/ vm_start_write(t)
    \/ vm_start_wait(t)
    \/ vm_start_return(t)
    \/ finish(t)

VcpuStep(c) ==
    \/ vcpu_arrive(c)
    \/ vcpu_pass(c)
    \/ vcpu_park(c)
    \/ vcpu_wake(c)
    \/ vcpu_exit(c)

\* The callers issue at most MaxCalls calls.
MayCall == ncalls < MaxCalls

\* Concurrent callers of the public operations; the host fails no vCPU
\* operation.
Next ==
    \/ \E t \in Callers : MayCall /\ pause(t)
    \/ \E t \in Callers : MayCall /\ resume(t)
    \/ \E t \in Callers : MayCall /\ destroy(t)
    \/ \E paused \in BOOLEAN : MayCall /\ vm_start(MainThread, paused)
    \/ \E t \in Callers : CallerStep(t)
    \/ \E c \in CPUs : VcpuStep(c)

Spec == Init /\ [][Next]_vars

\* The same callers on a host that fails vCPU operations.
SpecFaulty == InitFaulty /\ [][Next]_vars

QueryStep(t) ==
    \/ qs_read(t)
    \/ qc_cpu(t)

\* Concurrent callers of the lifecycle operations and of the queries.
NextQuery ==
    \/ \E t \in Callers : MayCall /\ pause(t)
    \/ \E t \in Callers : MayCall /\ resume(t)
    \/ \E t \in Callers : MayCall /\ destroy(t)
    \/ \E t \in Callers : MayCall /\ query_status(t)
    \/ \E t \in Callers : MayCall /\ query_cpus(t)
    \/ \E paused \in BOOLEAN : MayCall /\ vm_start(MainThread, paused)
    \/ \E t \in Callers : CallerStep(t)
    \/ \E t \in Callers : QueryStep(t)
    \/ \E c \in CPUs : VcpuStep(c)

SpecQuery == Init /\ [][NextQuery]_vars

\* One thread serves the control channel: it may start the VM before the first
\* line, reads the lines of one connection and runs each command's operation
\* itself; the vCPU threads run next to it until the process exits.
NextQmp ==
    \/ \E paused \in BOOLEAN : qmp_line.n = 0 /\ vm_start(MainThread, paused)
    \/ \E line \in Lines : qmp_line.n < MaxLines /\ handle_qmp(line)
    \/ CallNext("pause") /\ pause(MainThread)
    \/ CallNext("resume") /\ resume(MainThread)
    \/ CallNext("destroy") /\ destroy(MainThread)
    \/ CallNext("query_status") /\ query_status(MainThread)
    \/ CallNext("query_cpus") /\ query_cpus(MainThread)
    \/ \E op \in DeviceOps :
           CallNext(op) /\ device_call(MainThread, op, qmp_command_match(op, qmp_line))
    \/ CallerStep(MainThread)
    \/ QueryStep(MainThread)
    \/ qmp_exec_return
    \/ qmp_exec_done
    \/ qmp_send
    \/ qmp_send_err
    \/ qmp_shutdown_event
    \/ qmp_exit
    \/ \E c \in CPUs : exit_status = None /\ VcpuStep(c)

SpecQmp == Init /\ [][NextQmp]_vars

\* The fds a client passes as ancillary data.
RawFds == {<<3>>, <<4>>}

\* The getfd and netdev_add requests of a client.
FdLines ==
    {[kind |-> "command", name |-> "getfd", id |-> i, arguments |-> a, if_fd |-> f] :
        i \in Ids, a \in Names, f \in {None} \cup RawFds}
    \cup {[kind |-> "command", name |-> "netdev_add", id |-> i, arguments |-> a, if_fd |-> None] :
        i \in Ids, a \in FdArgTokens}

\* The serving thread on a session whose requests are getfd and netdev_add.
NextFd ==
    \/ \E line \in FdLines : qmp_line.n < MaxFdLines /\ handle_qmp(line)
    \/ \E op \in {"getfd", "netdev_add"} :
           CallNext(op) /\ device_call(MainThread, op, qmp_command_match(op, qmp_line))
    \/ finish(MainThread)
    \/ qmp_exec_return
    \/ qmp_exec_done
    \/ qmp_send

SpecFd == Init /\ [][NextFd]_vars

\* A single caller of notify_lifecycle with every pair of states, next to
\* destroy() from any thread.
NextNotify ==
    \/ \E old \in KvmVmState, new \in KvmVmState :
           MayCall /\ notify_lifecycle(MainThread, old, new)
    \/ \E t \in Callers : MayCall /\ destroy(t)
    \/ \E t \in Callers : CallerStep(t)
    \/ \E c \in CPUs : VcpuStep(c)

SpecNotify == Init /\ [][NextNotify]_vars

\* One caller that starts the VM running and then issues MaxPairs pairs of
\* pause() and resume(), each call after the one before it has returned.
LastOp == IF Len(log[MainThread]) = 0 THEN "none"
          ELSE log[MainThread][Len(log[MainThread])].op

LiveCall ==
    \/ vm_start(MainThread, FALSE)
    \/ /\ ncalls < 1 + 2 * MaxPairs
       /\ LastOp \in {"vm_start", "resume"}
       /\ pause(MainThread)
    \/ /\ LastOp = "pause"
       /\ resume(MainThread)

LiveStep ==
    \/ nl_check(MainThread)
    \/ vm_pause_cpu(MainThread)
    \/ vm_pause_write(MainThread)
    \/ vm_resume_cpu(MainThread)
    \/ vm_resume_write(MainThread)
    \/ nl_recheck(MainThread)
    \/ vm_start_clone(MainThread)
    \/ vm_start_cpu(MainThread)
    \/ vm_start_write(MainThread)
    \/ vm_start_wait(MainThread)
    \/ vm_start_return(MainThread)
    \/ finish(MainThread)

LiveVcpu(c) ==
    \/ vcpu_arrive(c)
    \/ vcpu_pass(c)
    \/ vcpu_park(c)
    \/ vcpu_wake(c)

NextLive ==
    \/ LiveCall
    \/ LiveStep
    \/ \E c \in CPUs : LiveVcpu(c)

\* Every thread that can take a step eventually takes one.
SpecLive ==
    /\ Init
    /\ [][NextLive]_vars
    /\ WF_vars(LiveCall)
    /\ WF_vars(LiveStep)
    /\ \A c \in CPUs : WF_vars(LiveVcpu(c))

TypeOK ==
    /\ vm_state \in KvmVmState
    /\ state_owner \in 0..NCallers
    /\ cpus_owner \in 0..NCallers
    /\ cpus_len \in {0, NCpus}
    /\ \A c \in CPUs : cpu_state[c] \in CpuLifecycleState
    /\ barrier_arrived \in 0..BarrierParties
    /\ ncalls \in 0..(1 + 2 * MaxPairs)
    /\ faults_left \in 0..MaxFaults

\* ================================================================ boot (x86_64)
\* Guest addresses and sizes are u64.  A value v is kept exactly as the pair
\* <<v \div 2^20, v % 2^20>>, so that 4 GiB and above stay representable.
MiB == 2^20

U64Zero == <<0, 0>>

U64Add(x, y) ==
    LET lo == x[2] + y[2]
    IN  <<x[1] + y[1] + (lo \div MiB), lo % MiB>>

U64Less(x, y) == x[1] < y[1] \/ (x[1] = y[1] /\ x[2] < y[2])

U64Leq(x, y) == ~U64Less(y, x)

\* x - y for y <= x (the call sites below guard it).
U64Sub(x, y) ==
    LET lo == x[2] - y[2]
    IN  IF lo >= 0 THEN <<x[1] - y[1], lo>> ELSE <<x[1] - y[1] - 1, lo + MiB>>

U64Min(x, y) == IF U64Less(y, x) THEN y ELSE x

\* `as u32`: the low 32 bits.
as_u32(x) == <<x[1] % 4096, x[2]>>

PageSize == 4096

\* v & !(PageSize - 1)
page_align_down(x) == <<x[1], x[2] - (x[2] % PageSize)>>

MEM_MAPPED_IO_SIZE == <<768, 0>>

MEM_MAPPED_IO_BASE_4G == <<4096, 0>>

MEM_MAPPED_IO_BASE == U64Sub(<<4096, 0>>, MEM_MAPPED_IO_SIZE)

\* LightMachine::arch_ram_ranges, x86_64: the (start, size) pairs of guest RAM.
arch_ram_ranges(mem_size) ==
    LET gap_start == MEM_MAPPED_IO_BASE
        gap_end == U64Add(MEM_MAPPED_IO_BASE, MEM_MAPPED_IO_SIZE)
    IN  <<[start |-> U64Zero, size |-> U64Min(gap_start, mem_size)]>>
        \o (IF U64Less(gap_start, mem_size)
            THEN <<[start |-> gap_end, size |-> U64Sub(mem_size, gap_start)]>>
            ELSE <<>>)

DRAM_BASE == <<2048, 0>>

\* LightMachine::arch_ram_ranges, aarch64: one range at DRAM_BASE.
arch_ram_ranges_aarch64(mem_size) == <<[start |-> DRAM_BASE, size |-> mem_size]>>

\* End of the last RAM region registered in the address space.
address_space_end(ranges) ==
    U64Add(ranges[Len(ranges)].start, ranges[Len(ranges)].size)

E820_RAM == 1

E820_RESERVED == 2

E820_MAX == 128

E820Entry(addr, size, type_) == [addr |-> addr, size |-> size, type_ |-> type_]

EBDA_START == <<0, 654336>>

VGA_RAM_BEGIN == <<0, 655360>>

MB_BIOS_BEGIN == <<0, 983040>>

VMLINUX_RAM_START == <<1, 0>>

INITRD_ADDR_MAX == <<4095, 1048575>>

e820_plan_low_only(mem_size) ==
    << E820Entry(U64Zero, EBDA_START, E820_RAM),
       E820Entry(EBDA_START, U64Sub(VGA_RAM_BEGIN, EBDA_START), E820_RESERVED),
       E820Entry(MB_BIOS_BEGIN, U64Zero, E820_RESERVED),
       E820Entry(VMLINUX_RAM_START,
                 U64Sub(U64Min(mem_size, MEM_MAPPED_IO_BASE), VMLINUX_RAM_START),
                 E820_RAM) >>

\* The E820 entries of the boot contract, in the order they are added.
e820_plan(mem_size) ==
    LET gap_start == MEM_MAPPED_IO_BASE
        gap_end == U64Add(MEM_MAPPED_IO_BASE, MEM_MAPPED_IO_SIZE)
    IN  << E820Entry(U64Zero, EBDA_START, E820_RAM),
           E820Entry(EBDA_START, U64Sub(VGA_RAM_BEGIN, EBDA_START), E820_RESERVED),
           E820Entry(MB_BIOS_BEGIN, U64Zero, E820_RESERVED),
           E820Entry(VMLINUX_RAM_START,
                     U64Sub(U64Min(mem_size, gap_start), VMLINUX_RAM_START),
                     E820_RAM) >>
        \o (IF U64Less(gap_start, mem_size)
            THEN <<E820Entry(gap_end, U64Sub(mem_size, gap_start), E820_RAM)>>
            ELSE <<>>)

\* Memory sizes of the machine configuration (bytes), around every boundary
\* of the layout: 0x1000_0000, the gap start and its neighbours, 4 GiB and above.
MemSizes ==
    { <<2, 0>>, <<256, 0>>, <<1024, 4096>>,
      <<3327, 1048575>>, <<3328, 0>>, <<3328, 1>>,
      <<4096, 0>>, <<4096, 1>>, <<6144, 0>>, <<8192, 5>> }

\* Initrd of the boot source: none, or a file of the given size.
InitrdSizes == { None, <<<<0, 65536>>>>, <<<<0, 65537>>>>, <<<<1, 0>>>> }

BootConfigs ==
    { [phase |-> "config", mem_size |-> m, initrd |-> i, initrd_size |-> U64Zero,
       ranges |-> <<>>, initrd_addr |-> None,
       e820_table |-> <<>>, e820_entries |-> 0, panicked |-> FALSE] :
      m \in MemSizes, i \in InitrdSizes }

not_boot_vars == <<machine_vars, events, qmp_vars, fd_vars, chan_vars, codec, dev_vars>>

\* LightMachine::new: guest RAM regions from arch_ram_ranges.
boot_new ==
    /\ boot.phase = "config"
    /\ boot' = [boot EXCEPT !.phase = "new",
                            !.ranges = arch_ram_ranges(boot.mem_size)]
    /\ UNCHANGED not_boot_vars

\* LightMachine::realize: the boot loader configuration.
boot_realize ==
    /\ boot.phase = "new"
    /\ boot' = [boot EXCEPT
                  !.phase = IF boot.initrd = None THEN "e820" ELSE "initrd",
                  !.initrd_size =
                      IF boot.initrd = None THEN U64Zero ELSE as_u32(boot.initrd[1])]
    /\ UNCHANGED not_boot_vars

\* load_kernel: the initrd goes to the highest page below
\* min(address_space_end, 0xffff_ffff) - initrd_size.
initrd_address(ranges, initrd_size) ==
    LET initrd_addr_max == U64Min(address_space_end(ranges), INITRD_ADDR_MAX)
    IN  page_align_down(U64Sub(initrd_addr_max, initrd_size))

boot_load_initrd ==
    /\ boot.phase = "initrd"
    /\ boot' = [boot EXCEPT
                  !.phase = "e820",
                  !.initrd_addr = <<initrd_address(boot.ranges, boot.initrd_size)>>]
    /\ UNCHANGED not_boot_vars

add_e820_entry_front(b, entry) ==
    [b EXCEPT !.e820_table = <<entry>> \o @, !.e820_entries = (@ + 1) % 256]

add_e820_entry_wrapping(b, entry) ==
    IF b.e820_entries >= E820_MAX
    THEN [b EXCEPT !.e820_table[(b.e820_entries % E820_MAX) + 1] = entry,
                   !.e820_entries = (@ + 1) % 256]
    ELSE [b EXCEPT !.e820_table = Append(@, entry), !.e820_entries = (@ + 1) % 256]

\* BootParams::add_e820_entry: e820_table[e820_entries] = entry; e820_entries += 1.
\* The table has E820_MAX slots: indexing past it panics.
add_e820_entry(b, entry) ==
    IF b.e820_entries >= E820_MAX
    THEN [b EXCEPT !.panicked = TRUE]
    ELSE [b EXCEPT !.e820_table = Append(@, entry), !.e820_entries = (@ + 1) % 256]

\* setup_boot_params: one add_e820_entry per entry of the plan.
boot_add_e820 ==
    /\ boot.phase = "e820"
    /\ ~boot.panicked
    /\ boot.e820_entries < Len(e820_plan(boot.mem_size))
    /\ boot' = add_e820_entry(boot, e820_plan(boot.mem_size)[boot.e820_entries + 1])
    /\ UNCHANGED not_boot_vars

\* The zero page is written once the map is complete.
boot_write_zero_page ==
    /\ boot.phase = "e820"
    /\ ~boot.panicked
    /\ boot.e820_entries = Len(e820_plan(boot.mem_size))
    /\ boot' = [boot EXCEPT !.phase = "done"]
    /\ UNCHANGED not_boot_vars

InitBoot ==
    /\ InitMachine
    /\ InitChannel
    /\ codec = NoCodec
    /\ faults_left = 0
    /\ boot \in BootConfigs

NextBoot ==
    \/ boot_new
    \/ boot_realize
    \/ boot_load_initrd
    \/ boot_add_e820
    \/ boot_write_zero_page

SpecBoot == InitBoot /\ [][NextBoot]_vars

\* ---------------------------------------------------------------- e820 calls
\* One call more than the table has slots.
MaxE820Calls == E820_MAX + 1

\* The entry of the i-th call (from 0) of a caller that adds one MiB per call.
ChainEntry(i, type_) == E820Entry(<<i, 0>>, <<1, 0>>, type_)

\* BootParams::new: the table is zeroed, no entry is counted.
FreshBootParams ==
    { [phase |-> "calls", calls |-> 0, type_ |-> ty,
       e820_table |-> <<>>, e820_entries |-> 0, panicked |-> FALSE] :
      ty \in {E820_RAM, E820_RESERVED} }

\* One more add_e820_entry on the same BootParams; a panic ends the program.
boot_e820_call ==
    /\ boot.phase = "calls"
    /\ ~boot.panicked
    /\ boot.calls < MaxE820Calls
    /\ boot' = [add_e820_entry(boot, ChainEntry(boot.calls, boot.type_))
                  EXCEPT !.calls = @ + 1]
    /\ UNCHANGED not_boot_vars

InitE820 ==
    /\ InitMachine
    /\ InitChannel
    /\ codec = NoCodec
    /\ faults_left = 0
    /\ boot \in FreshBootParams

NextE820 == boot_e820_call

SpecE820 == InitE820 /\ [][NextE820]_vars

\* ---------------------------------------------------------------- zero page layout
\* A field of a #[repr(C, packed)] struct: its name, its size in bytes and the
\* alignment its type would have outside a packed struct.
u8(name) == [name |-> name, size |-> 1, align |-> 1]

u16(name) == [name |-> name, size |-> 2, align |-> 2]

u32(name) == [name |-> name, size |-> 4, align |-> 4]

u64(name) == [name |-> name, size |-> 8, align |-> 8]

bytes(name, len) == [name |-> name, size |-> len, align |-> 1]

\* repr(C) without packed: every field at a multiple of its own alignment.
field_align_natural(align) == align

\* repr(C, packed): every field is aligned to 1.
field_align(align) == 1

align_up(off, a) == ((off + a - 1) \div a) * a

RECURSIVE FieldOffset(_, _)
\* Offset of the k-th field: fields follow one another in declaration order.
FieldOffset(fields, k) ==
    LET prev == IF k = 1 THEN 0
                ELSE FieldOffset(fields, k - 1) + fields[k - 1].size
    IN  align_up(prev, field_align(fields[k].align))

StructSize(fields) == FieldOffset(fields, Len(fields)) + fields[Len(fields)].size

FieldIndex(fields, name) == CHOOSE k \in 1..Len(fields) : fields[k].name = name

OffsetOf(fields, name) == FieldOffset(fields, FieldIndex(fields, name))

RealModeKernelHeader ==
    << u8("setup_sects"), u16("root_flags"), u32("syssize"), u16("ram_size"),
       u16("vid_mode"), u16("root_dev"), u16("boot_flag"), u16("jump"),
       u32("header"), u16("version"), u32("realmode_swtch"), u16("start_sys_seg"),
       u16("kernel_version"), u8("type_of_loader"), u8("loadflags"),
       u16("setup_move_size"), u32("code32_start"), u32("ramdisk_image"),
       u32("ramdisk_size"), u32("bootsect_kludge"), u16("heap_end_ptr"),
       u8("ext_loader_ver"), u8("ext_loader_type"), u32("cmdline_ptr"),
       u32("initrd_addr_max"), u32("kernel_alignment"), u8("relocatable_kernel"),
       u8("min_alignment"), u16("xloadflags"), u32("cmdline_size"),
       u32("hardware_subarch"), u64("hardware_subarch_data"), u32("payload_offset"),
       u32("payload_length"), u64("setup_data"), u64("pref_address"),
       u32("init_size"), u32("handover_offset"), u32("kernel_info_offset") >>

\* RealModeKernelHeader::new: the fields it sets to constants.
RealModeKernelHeader_new ==
    [boot_flag |-> \Haa55, header |-> \H53726448, type_of_loader |-> \Hff]

E820EntryFields == << u64("addr"), u64("size"), u32("type_") >>

BootParams ==
    << bytes("screen_info", \H40), bytes("apm_bios_info", \H14), u32("pad1"),
       bytes("tboot_addr", \H8), bytes("ist_info", \H10), bytes("pad2", \H10),
       bytes("hd0_info", \H10), bytes("hd1_info", \H10),
       bytes("sys_desc_table", \H10), bytes("olpc_ofw_header", \H10),
       u32("ext_ramdisk_image"), u32("ext_ramdisk_size"), u32("ext_cmd_line_ptr"),
       bytes("pad3", \H74), bytes("edid_info", \H80), bytes("efi_info", \H20),
       u32("alt_mem_k"), u32("scratch"), u8("e820_entries"), u8("eddbuf_entries"),
       u8("edd_mbr_sig_buf_entries"), u8("kbd_status"), u8("secure_boot"),
       u16("pad4"), u8("sentinel"), u8("pad5"),
       [name |-> "kernel_header", size |-> StructSize(RealModeKernelHeader),
        align |-> 8],
       bytes("pad6", \H24), bytes("edd_mbr_sig_buffer", \H40),
       [name |-> "e820_table", size |-> E820_MAX * StructSize(E820EntryFields),
        align |-> 8],
       bytes("pad8", \H30), bytes("eddbuf", \H1ec) >>

RECURSIVE le_bytes(_, _)
\* The n bytes of v as they lie in memory (little-endian).
le_bytes(v, n) == IF n = 0 THEN <<>> ELSE <<v % 256>> \o le_bytes(v \div 256, n - 1)

\* ================================================================ JSON codec
\* serde_json::Value, and a JSON document after serde_json::to_string: an
\* object is the sequence of its <<key, value>> pairs in the order written.
JNull == [t |-> "null"]

JBool(b) == [t |-> "bool", v |-> b]

JNum(n) == [t |-> "num", v |-> n]

JStr(str) == [t |-> "str", v |-> str]

JArr(items) == [t |-> "arr", v |-> items]

JObj(pairs) == [t |-> "obj", v |-> pairs]

\* The value of a key of an object, or None when the key is absent.
Get(obj, key) ==
    IF \E i \in 1..Len(obj.v) : obj.v[i][1] = key
    THEN <<obj.v[CHOOSE i \in 1..Len(obj.v) : obj.v[i][1] = key][2]>>
    ELSE None

\* serde_json::to_value of the results the handlers return.  The map of
\* serde_json keeps the keys of an object sorted.
to_value(x) ==
    CASE x.kind = "empty" -> JObj(<<>>)
      [] x.kind = "status" ->
            JObj(<< <<"running", JBool(x.running)>>,
                    <<"singlestep", JBool(x.singlestep)>>,
                    <<"status", JStr(x.status)>> >>)
      [] x.kind = "cpus" ->
            JArr([k \in 1..Len(x.cpus) |-> JObj(<< <<"CPU", JNum(x.cpus[k])>> >>)])
      [] x.kind = "null" -> JNull

\* ErrorMessage::new: class name and description of a QmpErrorClass.
ErrorMessage_new(class, content) == [errorkind |-> class, desc |-> content]

\* The Response struct: three Options.
ResponseStruct(resp, content) ==
    [return_ |-> IF resp.return_ = NoValue THEN None ELSE <<to_value(resp.return_)>>,
     error |-> IF resp.error = "none" THEN None
               ELSE <<ErrorMessage_new(resp.error, content)>>,
     id |-> resp.id]

\* Serialize for Response without skip_serializing_if: None is written as null.
serialize_response_all(r) ==
    JObj(<< <<"return", IF r.return_ = None THEN JNull ELSE r.return_[1]>>,
            <<"error", IF r.error = None THEN JNull
                       ELSE JObj(<< <<"class", JStr(r.error[1].errorkind)>>,
                                    <<"desc", JStr(r.error[1].desc)>> >>)>>,
            <<"id", IF r.id = None THEN JNull ELSE JNum(r.id[1])>> >>)

\* Serialize for Response: fields in declaration order, renamed, and an
\* Option that is None is skipped (skip_serializing_if = "Option::is_none").
serialize_response(r) ==
    JObj((IF r.return_ = None THEN <<>> ELSE << <<"return", r.return_[1]>> >>)
         \o (IF r.error = None THEN <<>>
             ELSE << <<"error", JObj(<< <<"class", JStr(r.error[1].errorkind)>>,
                                        <<"desc", JStr(r.error[1].desc)>> >>)>> >>)
         \o (IF r.id = None THEN <<>> ELSE << <<"id", JNum(r.id[1])>> >>))

\* Deserialize for Option<T>: an absent key is the default None, and so is
\* the JSON null; anything else is Some of the value.
deserialize_option(field) ==
    IF field = None THEN None
    ELSE IF field[1].t = "null" THEN None
    ELSE field

\* Deserialize for Response.
deserialize_response(doc) ==
    LET ret == deserialize_option(Get(doc, "return"))
        err == deserialize_option(Get(doc, "error"))
        id == deserialize_option(Get(doc, "id"))
    IN  [return_ |-> ret,
         error |-> IF err = None THEN None
                   ELSE <<[errorkind |-> Get(err[1], "class")[1].v,
                           desc |-> Get(err[1], "desc")[1].v]>>,
         id |-> IF id = None THEN None ELSE <<id[1].v>>]

\* QmpGreeting::create_greeting.
create_greeting(micro, minor, major) ==
    [qmp |-> [version |-> [application |-> [micro |-> micro, minor |-> minor,
                                            major |-> major],
                           package |-> ""],
              capabilities |-> <<>>]]

\* Serialize for QmpGreeting ("QMP", "qemu" are the renamed fields).
serialize_greeting(g) ==
    JObj(<< <<"QMP",
              JObj(<< <<"version",
                        JObj(<< <<"qemu",
                                  JObj(<< <<"micro", JNum(g.qmp.version.application.micro)>>,
                                          <<"minor", JNum(g.qmp.version.application.minor)>>,
                                          <<"major", JNum(g.qmp.version.application.major)>> >>)>>,
                                <<"package", JStr(g.qmp.version.package)>> >>)>>,
                      <<"capabilities",
                        JArr([k \in 1..Len(g.qmp.capabilities) |->
                                 JStr(g.qmp.capabilities[k])])>> >>)>> >>)

\* Deserialize for QmpGreeting.
deserialize_greeting(doc) ==
    LET greeting == Get(doc, "QMP")[1]
        version == Get(greeting, "version")[1]
        number == Get(version, "qemu")[1]
        cap == Get(greeting, "capabilities")[1]
    IN  [qmp |-> [version |-> [application |-> [micro |-> Get(number, "micro")[1].v,
                                                minor |-> Get(number, "minor")[1].v,
                                                major |-> Get(number, "major")[1].v],
                               package |-> Get(version, "package")[1].v],
                  capabilities |-> [k \in 1..Len(cap.v) |-> cap.v[k].v]]]

\* TimeStamp { seconds, microseconds }.
TimeStamp(seconds, microseconds) == [seconds |-> seconds, microseconds |-> microseconds]

\* The data of an event as a JSON object: STOP and RESUME carry none,
\* SHUTDOWN {guest, reason}, DEVICE_DELETED {device, path}.
event_data(e) ==
    CASE e.event = "SHUTDOWN" ->
            JObj(<< <<"guest", JBool(e.data.guest)>>, <<"reason", JStr(e.data.reason)>> >>)
      [] e.event = "DEVICE_DELETED" ->
            JObj(<< <<"device", JStr(e.data.device)>>, <<"path", JStr(e.data.path)>> >>)
      [] OTHER -> JObj(<<>>)

\* Serialize for QmpEvent: {"event": NAME, "data": {..}, "timestamp": {..}}.
serialize_event(e) ==
    JObj(<< <<"event", JStr(e.event)>>,
            <<"data", event_data(e)>>,
            <<"timestamp", JObj(<< <<"seconds", JNum(e.timestamp.seconds)>>,
                                   <<"microseconds", JNum(e.timestamp.microseconds)>> >>)>> >>)

\* Deserialize for QmpEvent.
deserialize_event(doc) ==
    LET name == Get(doc, "event")[1].v
        data == Get(doc, "data")[1]
        ts == Get(doc, "timestamp")[1]
    IN  [event |-> name,
         data |-> CASE name = "SHUTDOWN" ->
                         [guest |-> Get(data, "guest")[1].v,
                          reason |-> Get(data, "reason")[1].v]
                    [] name = "DEVICE_DELETED" ->
                         [device |-> Get(data, "device")[1].v,
                          path |-> Get(data, "path")[1].v]
                    [] OTHER -> [none |-> TRUE],
         timestamp |-> TimeStamp(Get(ts, "seconds")[1].v, Get(ts, "microseconds")[1].v)]

MaxCodecId == 1

\* The values create_response is given: the results of the query handlers,
\* the empty object, and Value::Null, which its parameter type admits.
ReturnValues ==
    { Empty, [kind |-> "null"], [kind |-> "cpus", cpus |-> <<>>],
      [kind |-> "cpus", cpus |-> <<0, 1>>] }
    \cup { StatusInfo(st) : st \in {"Created", "Running", "Paused"} }

ErrorClasses ==
    { <<"GenericError", "Invalid Qmp command arguments!">>,
      <<"GenericError", "Invalid SCM message">>,
      <<"CommandNotFound", "The command is not found">>,
      <<"DeviceNotFound", "Device net0 not found">> }

CodecIds == {None} \cup {<<k>> : k \in 0..MaxCodecId}

CodecResponses ==
    { ResponseStruct(create_response(v, id), "") : v \in ReturnValues, id \in CodecIds }
    \cup { ResponseStruct(change_id(create_empty_response, id), "") : id \in CodecIds }
    \cup { ResponseStruct(create_error_response(e[1], id), e[2]) :
              e \in ErrorClasses, id \in CodecIds }

CodecGreetings == { create_greeting(1, 0, 4), create_greeting(0, 0, 0),
                    create_greeting(255, 255, 255), create_greeting(0, 2, 5) }

CodecEvents ==
    { [event |-> n, data |-> [none |-> TRUE], timestamp |-> ts] :
         n \in EventNames, ts \in {TimeStamp(0, 0), TimeStamp(1575531524, 91519)} }
    \cup { [event |-> "SHUTDOWN", data |-> [guest |-> g, reason |-> r],
            timestamp |-> TimeStamp(1575531524, 999999)] :
              g \in BOOLEAN, r \in {"host-qmp-quit", "guest-shutdown"} }
    \cup { [event |-> "DEVICE_DELETED", data |-> [device |-> "net0", path |-> p],
            timestamp |-> TimeStamp(1, 0)] : p \in {"", "/machine/net0"} }

CodecInputs ==
    { [phase |-> "value", type |-> "response", value |-> r, text |-> None,
       parsed |-> None] : r \in CodecResponses }
    \cup { [phase |-> "value", type |-> "greeting", value |-> g, text |-> None,
            parsed |-> None] : g \in CodecGreetings }
    \cup { [phase |-> "value", type |-> "event", value |-> e, text |-> None,
            parsed |-> None] : e \in CodecEvents }

not_codec_vars == <<machine_vars, events, qmp_vars, fd_vars, chan_vars, boot, dev_vars>>

\* serde_json::to_string(&value).
codec_serialize ==
    /\ codec.phase = "value"
    /\ codec' = [codec EXCEPT
                   !.phase = "text",
                   !.text = <<CASE codec.type = "response" -> serialize_response(codec.value)
                                [] codec.type = "greeting" -> serialize_greeting(codec.value)
                                [] codec.type = "event" -> serialize_event(codec.value)>>]
    /\ UNCHANGED not_codec_vars

\* serde_json::from_str(&text).
codec_parse ==
    /\ codec.phase = "text"
    /\ codec' = [codec EXCEPT
                   !.phase = "parsed",
                   !.parsed = <<CASE codec.type = "response" -> deserialize_response(codec.text[1])
                                  [] codec.type = "greeting" -> deserialize_greeting(codec.text[1])
                                  [] codec.type = "event" -> deserialize_event(codec.text[1])>>]
    /\ UNCHANGED not_codec_vars

InitCodec ==
    /\ InitMachine
    /\ InitChannel
    /\ boot = NoBoot
    /\ faults_left = 0
    /\ codec \in CodecInputs

NextCodec ==
    \/ codec_serialize
    \/ codec_parse

SpecCodec == InitCodec /\ [][NextCodec]_vars

\* ================================================================ bus (hotplug)
\* Calls of device_add and device_del on one bus.
MaxBusCalls == 2

\* A String is the sequence of its characters.
RECURSIVE trim_start_matches_0x(_)
\* str.trim_start_matches("0x"): every leading repetition of "0x" is removed.
trim_start_matches_0x(str) ==
    IF Len(str) >= 2 /\ str[1] = "0" /\ str[2] = "x"
    THEN trim_start_matches_0x(SubSeq(str, 3, Len(str)))
    ELSE str

HexChars == <<"0", "1", "2", "3", "4", "5", "6", "7", "8", "9",
              "a", "b", "c", "d", "e", "f">>

IsHex(ch) == \E k \in 1..Len(HexChars) : HexChars[k] = ch

HexValue(ch) == (CHOOSE k \in 1..Len(HexChars) : HexChars[k] = ch) - 1

RECURSIVE HexFold(_, _)
HexFold(str, acc) ==
    IF str = <<>> THEN acc ELSE HexFold(Tail(str), acc * 16 + HexValue(Head(str)))

\* usize::from_str_radix(str, 16): Ok(n) as <<n>>, Err as None; the empty
\* string and a string with a character that is no hex digit are errors.
from_str_radix_16(str) ==
    IF str # <<>> /\ \A k \in 1..Len(str) : IsHex(str[k])
    THEN <<HexFold(str, 0)>>
    ELSE None

\* device_add: the slot of the bus, by addr or by lun (Some(slot); the handler
\* has no path on which it gives up before the bus call).
device_add_slot(addr, lun) ==
    IF addr # None
    THEN <<IF from_str_radix_16(trim_start_matches_0x(addr[1])) # None
           THEN from_str_radix_16(trim_start_matches_0x(addr[1]))[1] ELSE 0>>
    ELSE IF lun # None THEN <<lun[1] + 1>>
    ELSE <<0>>

DeviceIds == {"d0", "d1"}

Drivers == {"virtio-blk-mmio"}

\* Option<String> addr of a request.
Addrs == { None, << <<"0", "x", "1">> >>, << <<"0", "x", "0", "x", "1", "f">> >>,
           << <<"a">> >>, << <<"z", "z">> >> }

\* Option<usize> lun of a request.
Luns == { None, <<0>>, <<1>> }

not_bus_vars == <<machine_vars, events, qmp_vars, fd_vars, chan_vars, boot, codec, rz>>

\* DeviceInterface::device_add: bus.add_replaceable_device(&id, &driver, slot)
\* attaches the device or fails; the handler returns is_ok().
device_add(id, driver, addr, lun) ==
    /\ Len(bus.log) < MaxBusCalls
    /\ \E ok \in BOOLEAN :
         LET slot == device_add_slot(addr, lun)
             called == slot # None
             attached == IF called /\ ok
                         THEN bus.devices \cup {[id |-> id, driver |-> driver,
                                                 slot |-> slot[1]]}
                         ELSE bus.devices
         IN  bus' = [bus EXCEPT
                       !.devices = attached,
                       !.log = Append(@, [op |-> "device_add", id |-> id,
                                          addr |-> addr, lun |-> lun, slot |-> slot,
                                          ret |-> (called /\ ok),
                                          emitted |-> <<>>, path |-> None,
                                          devices0 |-> bus.devices,
                                          devices |-> attached])]
    /\ UNCHANGED not_bus_vars

\* The path the bus reports for a detached device.
PathOf(d) == <<"slot", d.slot>>

\* bus.del_replaceable_device(&device_id): Ok(path) for an attached device,
\* which is detached, or Err.
del_replaceable_device(devices, device_id) ==
    { [ok |-> TRUE, path |-> <<PathOf(d)>>, devices |-> devices \ {d}] :
         d \in {x \in devices : x.id = device_id} }
    \cup { [ok |-> FALSE, path |-> None, devices |-> devices] }

device_del_event_always(device_id, r) ==
    <<[event |-> "DEVICE_DELETED", device |-> <<device_id>>, path |-> r.path]>>

\* device_del, the Ok arm: event!(DEVICE_DELETED; {device: Some(id), path}).
device_del_event(device_id, r) ==
    IF r.ok
    THEN <<[event |-> "DEVICE_DELETED", device |-> <<device_id>>, path |-> r.path]>>
    ELSE <<>>

\* DeviceInterface::device_del.
device_del(device_id) ==
    /\ Len(bus.log) < MaxBusCalls
    /\ \E r \in del_replaceable_device(bus.devices, device_id) :
         bus' = [bus EXCEPT
                   !.devices = r.devices,
                   !.events = @ \o device_del_event(device_id, r),
                   !.log = Append(@, [op |-> "device_del", id |-> device_id,
                                      addr |-> None, lun |-> None, slot |-> None,
                                      ret |-> r.ok,
                                      emitted |-> device_del_event(device_id, r),
                                      path |-> r.path,
                                      devices0 |-> bus.devices,
                                      devices |-> r.devices])]
    /\ UNCHANGED not_bus_vars

NextBus ==
    \/ \E id \in DeviceIds, driver \in Drivers, addr \in Addrs, lun \in Luns :
           device_add(id, driver, addr, lun)
    \/ \E id \in DeviceIds : device_del(id)

SpecBus == Init /\ [][NextBus]_vars

\* ================================================================ realize
Archs == {"x86_64", "aarch64"}

not_rz_vars == <<machine_vars, events, qmp_vars, fd_vars, chan_vars, boot, codec, bus>>

return_err_ignored(r, step) == [r EXCEPT !.failed_at = step]

\* The ? operator on an Err: realize returns the error at once; the guard of
\* the boot source is dropped on the way out.
return_err(r, step) ==
    [r EXCEPT !.phase = "returned", !.ret = "err", !.failed_at = step,
              !.boot_source_locked = FALSE]

\* realize() is called on the machine built for one architecture, with a boot
\* source that has an initrd of some size or none.
realize_call(arch, initrd) ==
    /\ rz.phase = "idle"
    /\ rz' = [rz EXCEPT !.phase = "realize_devices", !.arch = arch,
                        !.initrd = initrd]
    /\ UNCHANGED not_rz_vars

\* self.bus.realize_devices(...)?; then the boot source is locked.
realize_devices ==
    /\ rz.phase = "realize_devices"
    /\ \E ok \in BOOLEAN :
         rz' = IF ok
               THEN [rz EXCEPT !.phase = "load_kernel", !.devices = TRUE,
                               !.boot_source_locked = TRUE]
               ELSE return_err(rz, <<"realize_devices">>)
    /\ UNCHANGED not_rz_vars

\* BootLoaderConfig of realize: the initrd and `initrd_size as u32`.
bootloader_config(initrd) ==
    <<[initrd |-> initrd # None,
       initrd_size |-> IF initrd = None THEN U64Zero ELSE as_u32(initrd[1])]>>

\* let layout = load_kernel(&bootloader_config, &self.sys_mem)?; on aarch64
\* the initrd address of the boot source is set from the layout and the lock
\* is released before the vCPU loop; on x86_64 the guard lives to the end.
realize_load_kernel ==
    /\ rz.phase = "load_kernel"
    /\ \E ok \in BOOLEAN :
         rz' = IF ok
               THEN [rz EXCEPT
                       !.phase = "cpus", !.kernel = TRUE, !.cpu_index = 0,
                       !.bootloader_config = bootloader_config(rz.initrd),
                       !.initrd_addr = (rz.arch = "aarch64" /\ rz.initrd # None),
                       !.boot_source_locked = (rz.arch = "x86_64")]
               ELSE return_err([rz EXCEPT !.bootloader_config =
                                              bootloader_config(rz.initrd)],
                               <<"load_kernel">>)
    /\ UNCHANGED not_rz_vars

\* for cpu_index in 0..max_cpus { cpus.lock().unwrap()[cpu_index].realize(..)?; }
realize_cpu ==
    /\ rz.phase = "cpus"
    /\ rz.cpu_index < NCpus
    /\ rz.cpu_index < cpus_len
    /\ cpus_owner = 0
    /\ \E ok \in BOOLEAN :
         rz' = IF ok
               THEN [rz EXCEPT !.realized = Append(@, rz.cpu_index),
                               !.cpu_index = @ + 1]
               ELSE return_err(rz, <<"cpu", rz.cpu_index>>)
    /\ UNCHANGED not_rz_vars

\* The loop is over: aarch64 goes on to the device tree, x86_64 to the power
\* button.
realize_cpus_done ==
    /\ rz.phase = "cpus"
    /\ rz.cpu_index = NCpus
    /\ rz' = [rz EXCEPT !.phase = IF rz.arch = "aarch64" THEN "generate_fdt"
                                  ELSE "register_power_event"]
    /\ UNCHANGED not_rz_vars

\* aarch64: self.generate_fdt_node(&mut fdt)?;
realize_generate_fdt ==
    /\ rz.phase = "generate_fdt"
    /\ \E ok \in BOOLEAN :
         rz' = IF ok
               THEN [rz EXCEPT !.phase = "write_fdt", !.fdt = TRUE]
               ELSE return_err(rz, <<"generate_fdt_node">>)
    /\ UNCHANGED not_rz_vars

\* aarch64: self.sys_mem.write(fdt, fdt_addr, len)?;
realize_write_fdt ==
    /\ rz.phase = "write_fdt"
    /\ \E ok \in BOOLEAN :
         rz' = IF ok
               THEN [rz EXCEPT !.phase = "register_power_event",
                               !.fdt_written = TRUE]
               ELSE return_err(rz, <<"sys_mem.write">>)
    /\ UNCHANGED not_rz_vars

\* self.register_power_event()?; Ok(())
realize_register_power_event ==
    /\ rz.phase = "register_power_event"
    /\ \E ok \in BOOLEAN :
         rz' = IF ok
               THEN [rz EXCEPT !.phase = "returned", !.ret = "ok",
                               !.power_event = TRUE,
                               !.boot_source_locked = FALSE]
               ELSE return_err(rz, <<"register_power_event">>)
    /\ UNCHANGED not_rz_vars

NextRealize ==
    \/ \E arch \in Archs, initrd \in InitrdSizes : realize_call(arch, initrd)
    \/ realize_devices
    \/ realize_load_kernel
    \/ realize_cpu
    \/ realize_cpus_done
    \/ realize_generate_fdt
    \/ realize_write_fdt
    \/ realize_register_power_event

SpecRealize == Init /\ [][NextRealize]_vars

\* ================================================================ claims
\* The edges of the lifecycle state machine of the machine state cell.
LifecycleEdges ==
    {<<"Created", "Running">>, <<"Created", "Paused">>,
     <<"Running", "Paused">>, <<"Paused", "Running">>,
     <<"Created", "Shutdown">>, <<"Running", "Shutdown">>,
     <<"Paused", "Shutdown">>}

\* The calls a caller has completed, as positions of its log.
Done(t) == 1..Len(log[t])

\* C1: every change of the machine state cell, under any interleaving of
\* pause(), resume(), destroy() and vm_start(), is an edge of the lifecycle
\* state machine.
C1_ValidPath ==
    [][vm_state' # vm_state => <<vm_state, vm_state'>> \in LifecycleEdges]_vars

\* C2: notify_lifecycle(old, new) with a pair that is no edge of the lifecycle
\* state machine runs no transition action, returns false and leaves the state
\* cell as it was.
C2_IllegalRejected ==
    /\ \A t \in Callers :
         (/\ cur[t].old \in KvmVmState
          /\ cur[t].new \in KvmVmState
          /\ <<cur[t].old, cur[t].new>> \notin LifecycleEdges)
         => cur[t].act = "none"
    /\ \A t \in Callers : \A i \in Done(t) :
         (/\ log[t][i].old \in KvmVmState
          /\ log[t][i].new \in KvmVmState
          /\ <<log[t][i].old, log[t][i].new>> \notin LifecycleEdges)
         => /\ log[t][i].act = "none"
            /\ ~log[t][i].ret
            /\ log[t][i].quiet => log[t][i].post = log[t][i].pre

\* vm_start ran alone: no call overlapped it and it is not in progress.
StartAlone ==
    /\ \A t \in Callers : cur[t].op # "vm_start"
    /\ \A t \in Callers : \A i \in Done(t) :
         log[t][i].op = "vm_start" => log[t][i].quiet

\* C3: Shutdown is terminal: once the state cell holds Shutdown it holds
\* Shutdown ever after, whatever pause(), resume() or destroy() calls are
\* issued afterwards or were in flight when Shutdown was written.
C3_ShutdownTerminal ==
    [][(vm_state = "Shutdown" /\ StartAlone) => vm_state' = "Shutdown"]_vars

\* What a call does when it runs alone on a machine in state s: whether result
\* r is one it can return, and the state it leaves. A destroy() on a machine
\* already in Shutdown does not return when it runs alone (it indexes the
\* cleared vCPU list), so any result is accepted for it here.
Sequential(s, e) ==
    CASE e.op = "pause" ->
           IF s = "Running" THEN [ok |-> e.ret, s |-> "Paused"]
           ELSE [ok |-> ~e.ret, s |-> s]
      [] e.op = "resume" ->
           IF s = "Paused" THEN [ok |-> e.ret, s |-> "Running"]
           ELSE [ok |-> ~e.ret, s |-> s]
      [] e.op = "destroy" ->
           [ok |-> (s = "Shutdown" \/ e.ret), s |-> "Shutdown"]
      [] e.op = "vm_start" ->
           [ok |-> (s = "Created" /\ e.ret), s |-> e.post]
      [] OTHER -> [ok |-> FALSE, s |-> s]

\* Some order of the completed calls that keeps each caller's own order,
\* starts from state s with the calls before positions `at` done, and gives
\* every call its recorded result and the machine its current state.
RECURSIVE Linearized(_, _)
Linearized(s, at) ==
    IF \A t \in Callers : at[t] > Len(log[t])
    THEN s = vm_state
    ELSE \E t \in Callers :
           /\ at[t] <= Len(log[t])
           /\ LET r == Sequential(s, log[t][at[t]]) IN
                /\ r.ok
                /\ Linearized(r.s, [at EXCEPT ![t] = @ + 1])

\* C4: the results of concurrent pause(), resume() and destroy() calls (on a
\* machine whose vm_start ran alone) and the final state of the cell are those
\* of the same calls run one at a time in some order.
C4_Linearizable ==
    ((\A t \in Callers : pc[t] = "idle") /\ StartAlone)
    => Linearized("Created", [t \in Callers |-> 1])

PassedBarrier(c) == cpu_thread[c] \in {"run", "parked", "exited"}

\* C5: no vCPU thread passes the start barrier before all vCPU threads have
\* arrived at it and vm_start has written Running or Paused to the state cell.
C5_StartBarrier ==
    \A c \in CPUs :
      PassedBarrier(c)
      => /\ start_written
         /\ \A d \in CPUs : cpu_thread[d] \notin {"none", "spawned"}
         /\ barrier_arrived = NCpus + 1

C5_Witness == \E c \in CPUs : PassedBarrier(c)

\* C6, as claimed: vm_start writes Running or Paused only after its wait on
\* the start barrier has returned, that is, after every party has arrived.
C6_WriteAfterWait ==
    [][(~start_written /\ start_written') => barrier_arrived >= NCpus + 1]_vars

\* C6, amended: vm_start first writes Running or Paused to the state cell,
\* keeps the state mutex, and only then waits on the start barrier; while it
\* waits the cell holds the value it wrote.
C6_WriteBeforeWait ==
    \A t \in Callers :
      pc[t] \in {"vs_wait", "vs_blocked"}
      => /\ start_written
         /\ state_owner = t
         /\ vm_state = IF cur[t].paused THEN "Paused" ELSE "Running"

C6_Witness ==
    \E t \in Callers : pc[t] = "vs_blocked" /\ barrier_arrived = NCpus + 1

\* Two calls of one caller that ran back to back with no other caller active.
BackToBack(t, i) ==
    /\ log[t][i].quiet
    /\ log[t][i + 1].quiet
    /\ log[t][i + 1].n = log[t][i].n + 1

PausePair(t, i) ==
    \/ /\ log[t][i].op = "pause"
       /\ log[t][i + 1].op = "resume"
       /\ log[t][i].pre = "Running"
    \/ /\ log[t][i].op = "resume"
       /\ log[t][i + 1].op = "pause"
       /\ log[t][i].pre = "Paused"

\* C7: pause() then resume() on a Running machine, and resume() then pause()
\* on a Paused machine, both return true and leave the state cell as it was
\* before the pair (no vCPU operation failing).
C7_PauseResumeIdentity ==
    \A t \in Callers : \A i \in Done(t) :
      (i < Len(log[t]) /\ BackToBack(t, i) /\ PausePair(t, i))
      => /\ log[t][i].ret
         /\ log[t][i + 1].ret
         /\ log[t][i + 1].post = log[t][i].pre

C7_Witness ==
    \E t \in Callers : \E i \in Done(t) :
      /\ i < Len(log[t])
      /\ BackToBack(t, i)
      /\ log[t][i].op = "pause"
      /\ log[t][i].pre = "Running"
      /\ log[t][i + 1].op = "resume"
      /\ log[t][i + 1].post = "Running"

\* C8: a pause() or resume() whose first state check fails returns false,
\* changes neither the state cell nor any vCPU, emits no event, and a QMP
\* client gets the false result in the response.
C8_RejectedVisible ==
    \A t \in Callers : \A i \in Done(t) :
      (log[t][i].op \in {"pause", "resume"} /\ log[t][i].act = "none")
      => /\ ~log[t][i].ret
         /\ log[t][i].cpu_ops = 0
         /\ log[t][i].emitted = <<>>
         /\ log[t][i].quiet => log[t][i].post = log[t][i].pre
         /\ log[t][i].resp.return_ # NoValue
            => (log[t][i].resp.return_ = [kind |-> "bool", value |-> FALSE]
                \/ log[t][i].resp.error # "none")

\* The destroy() at position i of caller t is the only destroy() issued.
OnlyDestroy(t, i) ==
    /\ \A u \in Callers : cur[u].op # "destroy"
    /\ \A u \in Callers : \A j \in Done(u) :
         log[u][j].op = "destroy" => (u = t /\ j = i)

\* C9: destroy() called in Created, Running or Paused returns true and leaves
\* the state cell at Shutdown, whatever pause() or resume() calls run beside it.
C9_DestroyUnconditional ==
    \A t \in Callers : \A i \in Done(t) :
      (/\ log[t][i].op = "destroy"
       /\ log[t][i].pre # "Shutdown"
       /\ OnlyDestroy(t, i)
       /\ StartAlone)
      => log[t][i].ret /\ log[t][i].post = "Shutdown"

\* The start and every pair of pause() and resume() have returned, the state
\* cell holds Running, no vCPU is Destroyed and every vCPU thread is in its
\* run loop.
PairsDone ==
    /\ ncalls = 1 + 2 * MaxPairs
    /\ pc[MainThread] = "idle"
    /\ \A i \in Done(MainThread) : log[MainThread][i].ret
    /\ vm_state = "Running"
    /\ \A c \in CPUs : cpu_state[c] = "Running" /\ cpu_thread[c] = "run"

\* C10: from a Running machine, a finite sequence of alternating pause() and
\* resume() pairs terminates with the state cell Running, every vCPU alive
\* and every vCPU thread back in its run loop.
C10_PairsTerminate == <>[]PairsDone

C10_Witness ==
    /\ PairsDone
    /\ Len(log[MainThread]) = 1 + 2 * MaxPairs
    /\ log[MainThread][Len(log[MainThread])].op = "resume"
    /\ Len(events) = 2 * MaxPairs

\* The positions at which a caller requests the state mutex, and those at
\* which it requests the vCPU list mutex.
WantsState(t) ==
    pc[t] \in {"destroy_read", "nl_check", "vp_write", "vr_write", "vd_lock",
               "nl_recheck", "vs_write", "qs_read"}

WantsCpus(t) == pc[t] \in {"vp_cpu", "vr_cpu", "vd_cpus", "vs_clone", "qc_cpu"}

\* The positions inside a transition action entered from notify_lifecycle
\* before the action itself takes the state mutex.
InAction(t) ==
    pc[t] \in {"vp_cpu", "vp_write", "vr_cpu", "vr_write", "vd_lock",
               "vs_clone", "vs_start", "vs_write"}

\* C11: the state mutex is requested before the vCPU list mutex: no caller
\* requests the state mutex while it holds the vCPU list mutex (or the state
\* mutex itself), notify_lifecycle holds no state mutex while its transition
\* action runs, and no two callers wait for each other's mutex.
C11_LockOrder ==
    /\ \A t \in Callers : WantsState(t) => (cpus_owner # t /\ state_owner # t)
    /\ \A t \in Callers : WantsCpus(t) => cpus_owner # t
    /\ \A t \in Callers : InAction(t) => state_owner # t
    /\ \A t \in Callers : \A u \in Callers \ {t} :
         ~(/\ WantsState(t) /\ state_owner = u
           /\ WantsCpus(u) /\ cpus_owner = t)

C11_Witness ==
    \E t \in Callers : \E u \in Callers \ {t} :
      /\ pc[t] = "vd_cpu"
      /\ state_owner = t
      /\ cpus_owner = t
      /\ pc[u] \in {"qc_cpu", "qs_read", "vp_cpu", "vp_write"}

\* The number of completed calls whose transition action was vm_destroy.
DestroysDone ==
    Cardinality({x \in Callers \X (1..(1 + 2 * MaxPairs)) :
                   x[2] \in Done(x[1]) /\ log[x[1]][x[2]].act = "vm_destroy"})

\* C12: every transition into Shutdown made by notify_lifecycle writes the
\* power-button handle, and when the handle is written the state cell holds
\* Shutdown, so that main_loop_should_exit() is true for the woken main loop.
C12_PowerButtonAtShutdown ==
    /\ [](StartAlone => power_button >= DestroysDone)
    /\ [][(power_button' # power_button /\ StartAlone) => main_loop_should_exit']_vars

\* C13: query_status reports running with status running exactly for a state
\* cell read as Running, running with status paused exactly for Paused, not
\* running with the default status for Created and Shutdown, and never
\* singlestep; with no other caller active the state read is the state of
\* the cell before and after the call.
C13_QueryStatus ==
    \A t \in Callers : \A i \in Done(t) :
      log[t][i].op = "query_status"
      => LET r == log[t][i].result
             s == log[t][i].old IN
           /\ ~r.singlestep
           /\ (r.running /\ r.status = "running") <=> (s = "Running")
           /\ (r.running /\ r.status = "paused") <=> (s = "Paused")
           /\ s \in {"Created", "Shutdown"} => (~r.running /\ r.status = "default")
           /\ log[t][i].quiet => (s = log[t][i].pre /\ s = log[t][i].post)

C13_Witness ==
    \E t \in Callers : \E i \in Done(t) :
      /\ log[t][i].op = "query_status"
      /\ log[t][i].old = "Paused"
      /\ log[t][i].result.running
      /\ log[t][i].result.status = "paused"

\* The number of vCPU slots whose presence bit is set.
PresentSlots == Cardinality({c \in CPUs : online_mask[c] = 1})

\* C14: in every state of the machine, after destroy too, a query_cpus issued
\* with no other caller active returns a list with one entry per vCPU slot
\* whose presence bit is set.
C14_QueryCpusLength ==
    /\ \A t \in Callers :
         (cur[t].op = "query_cpus" /\ cur[t].quiet /\ ncalls = cur[t].n)
         => pc[t] # "panicked"
    /\ \A t \in Callers : \A i \in Done(t) :
         (log[t][i].op = "query_cpus" /\ log[t][i].quiet)
         => Len(log[t][i].result.cpus) = PresentSlots

\* The responses written to the socket so far.
Responses == {i \in 1..Len(qmp_out) : qmp_out[i].kind = "response"}

\* The command table: the controller operation of each command name.
CommandTable(name) ==
    CASE name = "stop" -> "pause"
      [] name = "cont" -> "resume"
      [] name = "quit" -> "destroy"
      [] OTHER -> name

\* C15: for every command of the table, between reading the command and
\* sending its response the dispatcher has invoked exactly one controller
\* operation, the one the table assigns to the command name, with the
\* arguments (and for getfd the fd) of that command, and nothing else.
C15_DispatchTable ==
    \A i \in Responses :
        qmp_out[i].line = "command" =>
            /\ Len(qmp_out[i].calls) = 1
            /\ qmp_out[i].calls[1].op = CommandTable(qmp_out[i].name)
            /\ qmp_out[i].calls[1].args.from = qmp_out[i].arguments
            /\ qmp_out[i].calls[1].args.if_fd = qmp_out[i].if_fd
            /\ (qmp_out[i].name \in WithArguments
                  <=> qmp_out[i].calls[1].args.fields # <<>>)

\* A stop that paused the running VM was answered, and after it a netdev_add
\* that was passed the second argument object.
C15_Witness ==
    \E i \in Responses, j \in Responses :
        /\ i < j
        /\ qmp_out[i].name = "stop"
        /\ qmp_out[i].calls[1].op = "pause"
        /\ qmp_out[i].calls[1].ret
        /\ qmp_out[j].name = "netdev_add"
        /\ qmp_out[j].calls[1].args.from = "b"

\* C16: every response carries the id of the request it answers: the same id
\* when the request had one, no id when it had none, whatever the command.
C16_IdEchoed ==
    \A i \in Responses : qmp_out[i].resp.id = qmp_out[i].id

\* The responses on the socket, in the order they were written.
ResponseSeq == SelectSeq(qmp_out, LAMBDA o : o.kind = "response")

\* C17: on the connection the k-th line read gets the k-th response and no
\* other; the response of a line is written before the next line is read, and
\* when it is written the command's operation has returned and the machine
\* state is the one that operation left.
C17_OneResponseInOrder ==
    /\ \A i \in 1..Len(ResponseSeq) : ResponseSeq[i].n = i
    /\ Len(ResponseSeq) = IF qmp_pc \in {"exec", "send", "send_err"}
                          THEN qmp_line.n - 1 ELSE qmp_line.n
    /\ qmp_pc \in {"send", "send_err"} => pc[MainThread] = "idle"
    /\ \A i \in 1..Len(ResponseSeq) :
           ResponseSeq[i].line = "command" =>
               /\ Len(ResponseSeq[i].calls) >= 1
               /\ ResponseSeq[i].calls[Len(ResponseSeq[i].calls)].post
                      = ResponseSeq[i].state

\* A stop that paused the VM was answered, and then a query-status that
\* reports the paused VM.
C17_Witness ==
    /\ Len(ResponseSeq) = 2
    /\ ResponseSeq[1].name = "stop"
    /\ ResponseSeq[1].calls[1].ret
    /\ ResponseSeq[1].state = "Paused"
    /\ ResponseSeq[2].name = "query_status"
    /\ ResponseSeq[2].resp.return_ = StatusInfo("Paused")

\* The SHUTDOWN events written to the socket.
ShutdownEvents == {i \in 1..Len(qmp_out) : qmp_out[i].kind = "event"}

\* C18: a quit runs destroy() on the machine, then its response is sent, then
\* the SHUTDOWN event with guest=false and reason "host-qmp-quit" is written to
\* the same socket, then the process exits with a nonzero status; the machine
\* state is Shutdown when the event is written.
C18_QuitOrder ==
    /\ \A i \in ShutdownEvents :
           /\ i > 1
           /\ qmp_out[i - 1].kind = "response"
           /\ qmp_out[i - 1].name = "quit"
           /\ qmp_out[i - 1].n = qmp_out[i].n
           /\ Len(qmp_out[i - 1].calls) = 1
           /\ qmp_out[i - 1].calls[1].op = "destroy"
           /\ qmp_out[i].event = "SHUTDOWN"
           /\ qmp_out[i].guest = FALSE
           /\ qmp_out[i].reason = "host-qmp-quit"
           /\ qmp_out[i].state = "Shutdown"
    /\ \A i \in Responses :
           qmp_out[i].name = "quit" =>
               IF i = Len(qmp_out) THEN qmp_pc = "event" /\ exit_status = None
               ELSE i + 1 \in ShutdownEvents
    /\ exit_status # None =>
           /\ exit_status[1] # 0
           /\ Len(qmp_out) \in ShutdownEvents
           /\ qmp_pc = "exited"
    /\ qmp_pc = "exit" => Len(qmp_out) \in ShutdownEvents

\* The process has exited on a quit received by a running VM.
C18_Witness ==
    /\ exit_status # None
    /\ \E i \in Responses :
           /\ qmp_out[i].name = "quit"
           /\ qmp_out[i].calls[1].pre = "Running"

\* The responses to lines that failed to parse.
ParseErrors == {i \in 1..Len(ResponseSeq) :
                  ResponseSeq[i].line # "command" /\ ResponseSeq[i].name = "none"}

C20_CommandNotFound ==
    \A i \in 1..Len(ResponseSeq) :
        ResponseSeq[i].line = "unknown" =>
            /\ ResponseSeq[i].resp.error = "CommandNotFound"
            /\ ResponseSeq[i].resp.return_ = NoValue
            /\ ResponseSeq[i].calls = <<>>

\* The getfd and netdev_add calls served so far.
FdCalls == 1..Len(fd_log)

\* C21: a getfd that came with an fd leaves that fd in the named-fd table under
\* the name the client gave, changes no other name, and is answered by the
\* empty success response; a getfd without an fd is answered by a GenericError
\* and leaves the table as it was.
C21_Getfd ==
    /\ \A i \in FdCalls :
           fd_log[i].op = "getfd" =>
               IF fd_log[i].args.if_fd # None
               THEN /\ fd_log[i].fds[fd_log[i].args.from] = fd_log[i].args.if_fd
                    /\ \A n \in Names \ {fd_log[i].args.from} :
                           fd_log[i].fds[n] = fd_log[i].fds0[n]
                    /\ fd_log[i].result = Empty
               ELSE /\ fd_log[i].fds = fd_log[i].fds0
                    /\ fd_log[i].result = [kind |-> "error", class |-> "GenericError"]
    /\ \A i \in 1..Len(ResponseSeq) :
           ResponseSeq[i].name = "getfd" =>
               IF ResponseSeq[i].if_fd # None
               THEN ResponseSeq[i].resp = create_response(Empty, ResponseSeq[i].id)
               ELSE ResponseSeq[i].resp = create_error_response("GenericError", ResponseSeq[i].id)

\* An fd was stored under a name, and a later getfd for the same name that
\* came without an fd was refused and left it there.
C21_Witness ==
    \E i \in FdCalls, j \in FdCalls :
        /\ i < j
        /\ fd_log[i].op = "getfd" /\ fd_log[i].args.if_fd = <<3>>
        /\ fd_log[j].op = "getfd" /\ fd_log[j].args.if_fd = None
        /\ fd_log[j].args.from = fd_log[i].args.from
        /\ fd_log[j].fds[fd_log[j].args.from] = <<3>>
        /\ Len(ResponseSeq) >= j

\* The last ':'-separated segment of the fds argument of a netdev_add call.
NamedFd(e) == ArgumentsOf(e.args.from).fds[1][Len(ArgumentsOf(e.args.from).fds[1])]

\* The getfd call i stored an fd under name n and no getfd between i and j
\* stored another one under n.
Registered(i, j, n) ==
    /\ fd_log[i].op = "getfd"
    /\ fd_log[i].args.if_fd # None
    /\ fd_log[i].args.from = n
    /\ \A k \in FdCalls :
           (i < k /\ k < j /\ fd_log[k].op = "getfd" /\ fd_log[k].args.if_fd # None)
               => fd_log[k].args.from # n

\* C22: when getfd has stored the fd f under the name n and no later getfd
\* reused n, a netdev_add whose fds names n (for "a:b:...:n" the segment after
\* the last colon) builds a network config whose tap_fd is exactly f.
C22_FdRoundTrip ==
    \A i \in FdCalls, j \in FdCalls :
        ( /\ i < j
          /\ fd_log[j].op = "netdev_add"
          /\ ArgumentsOf(fd_log[j].args.from).fds # None
          /\ Registered(i, j, NamedFd(fd_log[j])) )
        => /\ fd_log[j].config # None
           /\ fd_log[j].config[1].tap_fd = fd_log[i].args.if_fd

\* fd 3 and then fd 4 were stored under one name, and a netdev_add with fds
\* "b:a" got the second of them from the name after the colon.
C22_Witness ==
    \E i \in FdCalls, j \in FdCalls, k \in FdCalls :
        /\ i < j /\ j < k
        /\ fd_log[i].op = "getfd" /\ fd_log[i].args.if_fd = <<3>>
        /\ fd_log[j].op = "getfd" /\ fd_log[j].args.if_fd = <<4>>
        /\ fd_log[i].args.from = "a" /\ fd_log[j].args.from = "a"
        /\ fd_log[k].op = "netdev_add" /\ fd_log[k].args.from = "b:a"
        /\ fd_log[k].config # None
        /\ fd_log[k].config[1].tap_fd = <<4>>
        /\ fd_log[k].net["net0"] = fd_log[k].config

\* C23: a netdev_add whose fds names an fd that no getfd has stored is answered
\* by a GenericError response, and no network config is registered on the bus.
C23_UnknownFdRejected ==
    \A j \in FdCalls :
        ( /\ fd_log[j].op = "netdev_add"
          /\ ArgumentsOf(fd_log[j].args.from).fds # None
          /\ fd_log[j].fds0[NamedFd(fd_log[j])] = None )
        => /\ fd_log[j].net = fd_log[j].net0
           /\ j <= Len(ResponseSeq) => ResponseSeq[j].resp.error = "GenericError"

\* The writer bound after the first k entries of the channel log.
RECURSIVE BoundAfter(_)
BoundAfter(k) ==
    IF k = 0 THEN None
    ELSE IF chan_log[k].op \in {"bind_writer", "unbind"} /\ chan_log[k].ok
    THEN chan_log[k].writer
    ELSE BoundAfter(k - 1)

\* C24: send_event never fails; called with no writer bound it writes nothing,
\* called with a writer bound it writes one line; and every line is written to
\* the writer bound at that moment, so none is written between an unbind() and
\* the next bind_writer().
C24_SendEvent ==
    /\ em_pc # "panicked"
    /\ sess_pc # "panicked"
    /\ \A k \in 1..Len(wire) :
           /\ BoundAfter(wire[k].at - 1) # None
           /\ wire[k].writer = BoundAfter(wire[k].at - 1)
    /\ \A i \in 1..Len(chan_log) :
           chan_log[i].op = "send_event" =>
               IF chan_log[i].writer = None
               THEN i = Len(chan_log) \/ chan_log[i + 1].op # "write"
               ELSE \/ em_pc = "write" /\ \A j \in (i + 1)..Len(chan_log) : chan_log[j].op # "write"
                    \/ \E j \in (i + 1)..Len(chan_log) : chan_log[j].op = "write" /\ chan_log[j].ok

\* ---------------------------------------------------------------- C25
RECURSIVE U64Sum(_)
U64Sum(sizes) ==
    IF sizes = <<>> THEN U64Zero ELSE U64Add(Head(sizes), U64Sum(Tail(sizes)))

\* [s1, e1) and [s2, e2) have a byte in common.
Intersects(s1, e1, s2, e2) ==
    /\ U64Less(s1, e1)
    /\ U64Less(s2, e2)
    /\ U64Less(s1, e2)
    /\ U64Less(s2, e1)

RangeEnd(r) == U64Add(r.start, r.size)

\* C25: once the RAM ranges of a machine with memory size M are computed,
\* their sizes sum to exactly M (on x86_64 and on aarch64); on x86_64 any two
\* of them are disjoint and none intersects the MMIO gap [4 GiB - 768 MiB, 4 GiB).
C25_RamRanges ==
    boot.phase \notin {"none", "config"} =>
        /\ U64Sum([k \in 1..Len(boot.ranges) |-> boot.ranges[k].size]) = boot.mem_size
        /\ LET r == arch_ram_ranges_aarch64(boot.mem_size)
           IN  U64Sum([k \in 1..Len(r) |-> r[k].size]) = boot.mem_size
        /\ \A i, j \in 1..Len(boot.ranges) :
              i # j => ~Intersects(boot.ranges[i].start, RangeEnd(boot.ranges[i]),
                                   boot.ranges[j].start, RangeEnd(boot.ranges[j]))
        /\ \A i \in 1..Len(boot.ranges) :
              ~Intersects(boot.ranges[i].start, RangeEnd(boot.ranges[i]),
                          <<3328, 0>>, <<4096, 0>>)

C25_Witness ==
    /\ boot.phase = "new"
    /\ boot.mem_size = <<6144, 0>>
    /\ boot.ranges = << [start |-> <<0, 0>>, size |-> <<3328, 0>>],
                        [start |-> <<4096, 0>>, size |-> <<2816, 0>>] >>

\* ---------------------------------------------------------------- C26
\* The map the boot contract states for memory size M, written out.
ExpectedE820(M) ==
    << [addr |-> <<0, 0>>, size |-> <<0, 654336>>, type_ |-> 1],
       [addr |-> <<0, 654336>>, size |-> <<0, 1024>>, type_ |-> 2],
       [addr |-> <<0, 983040>>, size |-> <<0, 0>>, type_ |-> 2],
       [addr |-> <<1, 0>>,
        size |-> U64Sub(U64Min(M, <<3328, 0>>), <<1, 0>>), type_ |-> 1] >>
    \o (IF U64Less(<<3328, 0>>, M)
        THEN <<[addr |-> <<4096, 0>>, size |-> U64Sub(M, <<3328, 0>>), type_ |-> 1]>>
        ELSE <<>>)

\* C26: the E820 map of the zero page is exactly, in order, {0, 0x9FC00, RAM},
\* {0x9FC00, 0x400, Reserved}, {0xF0000, 0, Reserved},
\* {0x100000, min(mem_size, gap_start) - 0x100000, RAM}, followed by
\* {4 GiB, mem_size - gap_start, RAM} exactly when mem_size > gap_start; so
\* e820_entries is 4 for gap_start - 1 and gap_start and 5 for gap_start + 1,
\* and a memory of 0x1000_0000 gives the fourth entry the size 0x0FF0_0000.
C26_E820Map ==
    boot.phase = "done" =>
        /\ boot.e820_table = ExpectedE820(boot.mem_size)
        /\ boot.e820_entries = Len(boot.e820_table)
        /\ boot.mem_size \in {<<3327, 1048575>>, <<3328, 0>>} => boot.e820_entries = 4
        /\ boot.mem_size = <<3328, 1>> => boot.e820_entries = 5
        /\ boot.mem_size = <<256, 0>> =>
              /\ boot.e820_entries = 4
              /\ boot.e820_table[4].size = <<255, 0>>

C26_Witness ==
    /\ boot.phase = "done"
    /\ boot.mem_size = <<3328, 1>>
    /\ boot.e820_entries = 5
    /\ boot.e820_table[5] = [addr |-> <<4096, 0>>, size |-> <<0, 1>>, type_ |-> 1]

\* ---------------------------------------------------------------- C27
\* C27: the entries 0 .. e820_entries - 1 of the emitted map are sorted by
\* ascending base address and the ranges [addr, addr + size) of any two of
\* them do not overlap.
C27_E820Sorted ==
    boot.phase = "done" =>
        /\ boot.e820_entries <= Len(boot.e820_table)
        /\ \A i, j \in 1..boot.e820_entries :
              i < j =>
                /\ U64Less(boot.e820_table[i].addr, boot.e820_table[j].addr)
                /\ ~Intersects(boot.e820_table[i].addr,
                               U64Add(boot.e820_table[i].addr, boot.e820_table[i].size),
                               boot.e820_table[j].addr,
                               U64Add(boot.e820_table[j].addr, boot.e820_table[j].size))

C27_Witness ==
    /\ boot.phase = "done"
    /\ boot.mem_size = <<8192, 5>>
    /\ boot.e820_entries = 5
    /\ boot.e820_table[4].size = <<3327, 0>>
    /\ boot.e820_table[5].addr = <<4096, 0>>

\* ---------------------------------------------------------------- C28
\* [a, a + size) lies inside one of the RAM ranges.
InsideRam(ranges, a, size) ==
    \E k \in 1..Len(ranges) :
        /\ U64Leq(ranges[k].start, a)
        /\ U64Leq(U64Add(a, size), RangeEnd(ranges[k]))

\* C28: an initrd of size S is loaded at the highest page-aligned address A
\* with A <= min(address_space_end, 0xffff_ffff) - S, so that [A, A + S) lies
\* inside guest RAM; a memory of 0x1000_0000 and S = 0x1_0000 give 0x0FFF_0000.
C28_InitrdInRam ==
    boot.initrd_addr # None =>
        LET A == boot.initrd_addr[1]
            S == boot.initrd_size
            limit == U64Sub(U64Min(RangeEnd(boot.ranges[Len(boot.ranges)]),
                                   <<4095, 1048575>>), S)
        IN  /\ A[2] % 4096 = 0
            /\ U64Leq(A, limit)
            /\ U64Less(limit, U64Add(A, <<0, 4096>>))
            /\ (boot.mem_size = <<256, 0>> /\ S = <<0, 65536>>) => A = <<255, 983040>>
            /\ InsideRam(boot.ranges, A, S)

\* ---------------------------------------------------------------- C29
\* Byte offset of entry k (from 0) of the E820 table in the zero page.
E820EntryOffset(k) == OffsetOf(BootParams, "e820_table") + k * StructSize(E820EntryFields)

\* C29: in the packed BootParams the E820 count is the single byte at offset
\* 0x1e8, the kernel header starts at 0x1f1 (its boot_flag at 0x1fe and its
\* "HdrS" magic at 0x202), and the E820 table is 128 twenty-byte entries
\* {u64 addr, u64 size, u32 type} starting at 0x2d0; every entry of a built
\* map lies inside that table.
C29_ZeroPageLayout ==
    /\ OffsetOf(BootParams, "e820_entries") = 488
    /\ BootParams[FieldIndex(BootParams, "e820_entries")].size = 1
    /\ OffsetOf(BootParams, "kernel_header") = 497
    /\ OffsetOf(BootParams, "kernel_header")
          + OffsetOf(RealModeKernelHeader, "boot_flag") = 510
    /\ OffsetOf(BootParams, "kernel_header")
          + OffsetOf(RealModeKernelHeader, "header") = 514
    /\ le_bytes(RealModeKernelHeader_new.header, 4) = <<72, 100, 114, 83>>
    /\ OffsetOf(BootParams, "e820_table") = 720
    /\ BootParams[FieldIndex(BootParams, "e820_table")].size = 128 * 20
    /\ StructSize(E820EntryFields) = 20
    /\ [k \in 1..3 |-> <<E820EntryFields[k].name, E820EntryFields[k].size,
                         FieldOffset(E820EntryFields, k)>>]
          = << <<"addr", 8, 0>>, <<"size", 8, 8>>, <<"type_", 4, 16>> >>
    /\ boot.phase = "done" =>
          \A k \in 0..(boot.e820_entries - 1) :
              /\ E820EntryOffset(k) = 720 + 20 * k
              /\ E820EntryOffset(k) + 20 <= OffsetOf(BootParams, "pad8")

C29_Witness ==
    /\ boot.phase = "done"
    /\ boot.e820_entries = 5
    /\ E820EntryOffset(4) = 800
    /\ OffsetOf(BootParams, "e820_entries") = 488

\* ---------------------------------------------------------------- C30
\* The serialised response has exactly one of the keys "return" and "error".
OneOfReturnError(doc) == (Get(doc, "return") # None) # (Get(doc, "error") # None)

NoTransitionInFlight == \A t \in Callers : pc[t] = "idle"

\* C31: whenever the state cell is Paused and no lifecycle transition is in
\* flight every vCPU of the list is paused, and whenever it is Running and no
\* transition is in flight every vCPU is running, also after a pause() or
\* resume() that failed part-way through the vCPU list.
C31_CpusFollowState ==
    (NoTransitionInFlight /\ vm_state \in {"Paused", "Running"}) =>
        \A c \in CPUs : c < cpus_len => cpu_state[c] = vm_state

\* ---------------------------------------------------------------- C32
\* Caller t returns from its operation in this step.
Returns(t) == pc[t] = "return" /\ pc'[t] = "idle"

\* C32: a STOP event is emitted exactly when pause() returns true and a RESUME
\* event exactly when resume() returns true, no other step emits one, and the
\* result of pause() or resume() becomes true only in the re-check that finds
\* the state cell holding the new state (Paused, respectively Running), which
\* precedes the event.
C32_EventOnTrueReturn ==
    [][ /\ \A t \in Callers :
             /\ Returns(t) =>
                   events' = events \o
                      (IF cur[t].op = "pause" /\ cur[t].ret THEN <<"STOP">>
                       ELSE IF cur[t].op = "resume" /\ cur[t].ret THEN <<"RESUME">>
                       ELSE <<>>)
             /\ (cur[t].op \in {"pause", "resume"} /\ ~cur[t].ret
                 /\ cur'[t].op = cur[t].op /\ cur'[t].ret) =>
                   /\ pc[t] = "nl_recheck"
                   /\ vm_state = cur[t].new
                   /\ vm_state = (IF cur[t].op = "pause" THEN "Paused" ELSE "Running")
        /\ (\A t \in Callers : ~Returns(t)) => events' = events
      ]_vars

C32_Witness ==
    /\ events = <<"STOP">>
    /\ \E t \in Callers : \E i \in Done(t) :
           log[t][i].op = "pause" /\ log[t][i].ret /\ log[t][i].emitted = <<"STOP">>
    /\ \E t \in Callers : \E i \in Done(t) :
           log[t][i].op = "resume" /\ ~log[t][i].ret /\ log[t][i].emitted = <<>>

\* ---------------------------------------------------------------- C33
BusCalls == 1..Len(bus.log)

\* The DEVICE_DELETED events of the calls up to the k-th.
RECURSIVE EmittedUpTo(_)
EmittedUpTo(k) == IF k = 0 THEN <<>> ELSE EmittedUpTo(k - 1) \o bus.log[k].emitted

\* C33: device_del emits a DEVICE_DELETED event carrying the device id and the
\* path exactly when the bus detach succeeds, and then returns true; when the
\* detach fails it returns false and emits no event.
C33_DeviceDel ==
    /\ bus.events = EmittedUpTo(Len(bus.log))
    /\ \A i \in BusCalls :
         bus.log[i].op = "device_del" =>
            IF bus.log[i].devices # bus.log[i].devices0
            THEN /\ bus.log[i].ret
                 /\ \E d \in bus.log[i].devices0 :
                       /\ d.id = bus.log[i].id
                       /\ bus.log[i].devices = bus.log[i].devices0 \ {d}
                       /\ bus.log[i].emitted =
                             <<[event |-> "DEVICE_DELETED",
                                device |-> <<bus.log[i].id>>,
                                path |-> <<<<"slot", d.slot>>>>]>>
            ELSE /\ ~bus.log[i].ret
                 /\ bus.log[i].emitted = <<>>

C33_Witness ==
    /\ Len(bus.log) = 2
    /\ bus.log[1].op = "device_add" /\ bus.log[1].ret /\ bus.log[1].slot = <<31>>
    /\ bus.log[2].op = "device_del" /\ bus.log[2].ret
    /\ bus.events = <<[event |-> "DEVICE_DELETED", device |-> <<"d0">>,
                       path |-> <<<<"slot", 31>>>>]>>

\* ---------------------------------------------------------------- C34
\* C34: a device_add that supplies both addr and lun is rejected: it returns
\* failure and attaches nothing; with only addr the slot is the hex value of
\* addr, with only lun the slot is lun + 1.
C34_DeviceAddSlot ==
    \A i \in BusCalls :
       bus.log[i].op = "device_add" =>
          /\ (bus.log[i].addr # None /\ bus.log[i].lun # None) =>
                /\ ~bus.log[i].ret
                /\ bus.log[i].devices = bus.log[i].devices0
          /\ (bus.log[i].addr = << <<"0", "x", "1">> >> /\ bus.log[i].lun = None) =>
                bus.log[i].slot = <<1>>
          /\ (bus.log[i].addr = << <<"a">> >> /\ bus.log[i].lun = None) =>
                bus.log[i].slot = <<10>>
          /\ (bus.log[i].addr = None /\ bus.log[i].lun # None) =>
                bus.log[i].slot = <<bus.log[i].lun[1] + 1>>

\* ---------------------------------------------------------------- C35
\* The error of realize came out of the realize of vCPU k.
FailedAtCpu(k) == rz.failed_at = <<"cpu", k>>

\* C35: if loading the kernel (building the boot layout) fails during realize,
\* realize returns the error before any vCPU has been realized and before the
\* power-button event is registered; if realizing vCPU k fails, no vCPU with an
\* index greater than k is realized; in both cases the machine state stays
\* Created and no vCPU thread runs.
C35_RealizeFailure ==
    /\ rz.failed_at = <<"load_kernel">> =>
          /\ rz.phase = "returned" /\ rz.ret = "err"
          /\ rz.realized = <<>>
          /\ ~rz.power_event
          /\ vm_state = "Created"
          /\ \A c \in CPUs : cpu_thread[c] = "none"
    /\ \A k \in CPUs :
          FailedAtCpu(k) =>
             /\ rz.phase = "returned" /\ rz.ret = "err"
             /\ \A i \in 1..Len(rz.realized) : rz.realized[i] < k
             /\ ~rz.power_event
             /\ vm_state = "Created"
             /\ \A c \in CPUs : cpu_thread[c] = "none"

C35_Witness ==
    /\ FailedAtCpu(0)
    /\ rz.arch = "aarch64"
    /\ rz.kernel
    /\ rz.phase = "returned"
    /\ rz.realized = <<>>

\* ---------------------------------------------------------------- C36
\* C36: after k add_e820_entry calls on a fresh BootParams e820_entries is k
\* and the entry of the i-th call is at index i, earlier entries unchanged; the
\* count never exceeds 128: the 129th call fails, it neither wraps the one-byte
\* count nor writes outside the table.
C36_E820Count ==
    boot.phase = "calls" =>
        /\ boot.e820_entries <= E820_MAX
        /\ Len(boot.e820_table) = boot.e820_entries
        /\ \A i \in 1..boot.e820_entries :
              boot.e820_table[i] = ChainEntry(i - 1, boot.type_)
        /\ ~boot.panicked => boot.e820_entries = boot.calls
        /\ boot.panicked <=> boot.calls > E820_MAX
        /\ boot.panicked => boot.e820_entries = E820_MAX

C36_Witness ==
    /\ boot.phase = "calls"
    /\ boot.calls = E820_MAX + 1
    /\ boot.panicked
    /\ boot.e820_entries = E820_MAX
    /\ boot.e820_table[E820_MAX] = ChainEntry(E820_MAX - 1, boot.type_)

\* ---------------------------------------------------------------- C37
\* Two calls of the same operation, pause() or resume(), are in flight.
Concurrent(t1, t2) ==
    /\ t1 # t2
    /\ cur[t1].op \in {"pause", "resume"}
    /\ cur[t2].op = cur[t1].op

\* C37: of two concurrent pause() (or resume()) calls at most one returns
\* true: the vCPUs are paused (resumed) by at most one of them and at most one
\* STOP (RESUME) event is emitted per actual state change.
C37_OneWinner ==
    \A t1, t2 \in Callers :
       Concurrent(t1, t2) =>
          /\ ~(cur[t1].cpu_ops > 0 /\ cur[t2].cpu_ops > 0)
          /\ ~(/\ pc[t1] = "return" /\ cur[t1].ret
               /\ pc[t2] = "return" /\ cur[t2].ret)

\* ---------------------------------------------------------------- C38
\* C38: a send_event that runs concurrently with unbind() never fails: the
\* writer cannot become absent between the is_connected() test and its use,
\* and send_event writes a whole line or nothing.
C38_WriterStaysBound ==
    /\ em_pc = "write" => event_writer # None
    /\ em_pc # "panicked"
    /\ \A i \in 1..Len(chan_log) :
          (chan_log[i].op = "write") => chan_log[i].ok

\* ---------------------------------------------------------------- C39
\* C39: every access cpus[i] made by vm_start, vm_pause, vm_resume, vm_destroy
\* and query_cpus has i below the current length of the list; no operation
\* indexes the list after vm_destroy has cleared it. (An index past the end
\* is a panic with the list locked, which is the only way the mutex of the
\* list gets poisoned.)
C39_IndexInBounds == ~cpus_poisoned

\* ---------------------------------------------------------------- C40
\* The vm_destroy run by the call of t has returned, with Ok or with Err.
DestroyReturned(t) ==
    /\ cur[t].act = "vm_destroy"
    /\ pc[t] \in {"nl_power", "nl_recheck", "return"}

\* C40: whenever the state is Shutdown and vm_destroy has returned, with
\* success or with an error, every vCPU has been destroyed and the list is
\* empty: a failure to destroy vCPU k never leaves the machine in Shutdown
\* with the vCPUs from k + 1 on still running. (Checked with no other call in
\* flight.)
C40_ShutdownDestroysAll ==
    \A t \in Callers :
       (/\ DestroyReturned(t)
        /\ vm_state = "Shutdown"
        /\ \A u \in Callers \ {t} : pc[u] = "idle" /\ log[u] = <<>>)
       => /\ cpus_len = 0
          /\ \A c \in CPUs : cpu_state[c] = "Destroyed"

====
